---- MODULE Spec2Model ----
(***************************************************************************)
(* A model of the scene node / terrain layer (src/src/scene/node.rs,       *)
(* src/src/scene/terrain.rs) and of the frame buffer interface             *)
(* (src/fyrox-graphics/src/framebuffer.rs).                                *)
(*                                                                         *)
(* The module holds several specifications over one set of variables; each *)
(* specification drives one group of variables and leaves the others at    *)
(* their idle values:                                                      *)
(*   SpecKind         NodeKind::new / NodeKind::id                         *)
(*   SpecLayer        Layer::batch_id                                      *)
(*   SpecTerrain      Terrain: build, update, bounding_box, brushes,       *)
(*                    moves, save / load, raw_copy                         *)
(*   SpecBuilder      TerrainBuilder: with_* and build                     *)
(*   SpecNode         Node: setters, make_copy, Visit                      *)
(*   SpecFrameBuffer  GpuFrameBufferTrait: clear, blit_to                  *)
(*   SpecDraw         GpuFrameBufferTrait: draw, draw_instances            *)
(*   SpecLock         Chunk::update and Chunk::data under the RwLock       *)
(*   SpecOptimizer    VisibilityBufferOptimizer                            *)
(***************************************************************************)
EXTENDS Integers, Sequences, FiniteSets, TLC

VARIABLES
    kind_id,        \* the u8 handed to NodeKind::new
    kind_result,    \* what NodeKind::new returned and what id() says of it
    layer_a,        \* a terrain layer
    layer_b,        \* a second terrain layer
    data_key,       \* the key handed to Layer::batch_id
    batch_ids,      \* the batch ids of layer_a and layer_b under data_key
    overflow_checks, \* whether the build panics on integer overflow (debug) or wraps
    builder,        \* the TerrainBuilder being configured
    build_result,   \* what TerrainBuilder::build made of it
    status,         \* "running", or "panicked" once a call did not return
    terrains,       \* the terrain nodes followed, NONE where there is none
    arcs,           \* the SurfaceData behind each Arc<RwLock<SurfaceData>>
    saved,          \* what Visit wrote of the built terrain
    last,           \* the last operation, its terrain and what it returned
    steps,          \* the number of operations so far
    node,           \* a scene node
    copy,           \* what make_copy returned of it
    archive,        \* the visitor the node was written to or read from
    read_back,      \* the node read back
    node_last,      \* the last operation on the node and its argument or result
    node_steps,     \* the number of operations on the node so far
    frame_buffers,  \* two frame buffers
    fb_before,      \* the frame buffers before the last operation
    fb_last,        \* the last operation on the frame buffers and its arguments
    fb_steps,       \* the number of operations on the frame buffers so far
    rw_lock,        \* the RwLock of a shared SurfaceData: its writer and its readers
    shared,         \* the SurfaceData behind that lock
    writers,        \* the threads that own a terrain whose chunk holds the Arc
    observers,      \* the threads that read the data through Chunk::data()
    edits,          \* the number of height edits so far
    optimizer,      \* a VisibilityBufferOptimizer
    opt_last,       \* the last call on the optimizer, what it was given and what it did
    opt_steps       \* the number of calls on the optimizer so far

kindVars == <<kind_id, kind_result>>

layerVars == <<layer_a, layer_b, data_key, batch_ids>>

profileVars == <<overflow_checks>>

builderVars == <<builder, build_result>>

terrainVars == <<status, terrains, arcs, saved, last, steps>>

nodeVars == <<node, copy, archive, read_back, node_last, node_steps>>

frameBufferVars == <<frame_buffers, fb_before, fb_last, fb_steps>>

lockVars == <<rw_lock, shared, writers, observers, edits>>

optimizerVars == <<optimizer, opt_last, opt_steps>>

vars == <<kindVars, layerVars, profileVars, builderVars, terrainVars, nodeVars,
          frameBufferVars, lockVars, optimizerVars>>

\* A value that stands for "nothing there": no result yet, no terrain.
NONE == [tag |-> "None"]

(***************************************************************************)
(* NodeKind                                                                *)
(***************************************************************************)

\* u8: the argument type of NodeKind::new.
U8_MAX == 255

\* The payload a variant gets from Default::default().
DefaultPayload == 0

\* enum NodeKind: Base carries nothing, every other variant carries a value.
Base == [tag |-> "Base", payload |-> DefaultPayload]

MakeKind(tag, payload) == [tag |-> tag, payload |-> payload]

KindTags == {"Base", "Light", "Camera", "Mesh", "Sprite", "ParticleSystem"}

Ok(v) == [tag |-> "Ok", value |-> v]

Err(msg) == [tag |-> "Err", value |-> msg]

NodeKindNewAccepts6(id) ==
    CASE id = 0 -> Ok(Base)
      [] id = 1 -> Ok(MakeKind("Light", DefaultPayload))
      [] id = 2 -> Ok(MakeKind("Camera", DefaultPayload))
      [] id = 3 -> Ok(MakeKind("Mesh", DefaultPayload))
      [] id = 4 -> Ok(MakeKind("Sprite", DefaultPayload))
      [] id = 5 -> Ok(MakeKind("ParticleSystem", DefaultPayload))
      [] id = 6 -> Ok(MakeKind("ParticleSystem", DefaultPayload))
      [] OTHER -> Err("Invalid node kind")

\* NodeKind::new(id: u8) -> Result<Self, String>
NodeKindNew(id) ==
    CASE id = 0 -> Ok(Base)
      [] id = 1 -> Ok(MakeKind("Light", DefaultPayload))
      [] id = 2 -> Ok(MakeKind("Camera", DefaultPayload))
      [] id = 3 -> Ok(MakeKind("Mesh", DefaultPayload))
      [] id = 4 -> Ok(MakeKind("Sprite", DefaultPayload))
      [] id = 5 -> Ok(MakeKind("ParticleSystem", DefaultPayload))
      [] OTHER -> Err("Invalid node kind")

\* NodeKind::id(&self) -> u8
NodeKindId(kind) ==
    CASE kind.tag = "Base" -> 0
      [] kind.tag = "Light" -> 1
      [] kind.tag = "Camera" -> 2
      [] kind.tag = "Mesh" -> 3
      [] kind.tag = "Sprite" -> 4
      [] kind.tag = "ParticleSystem" -> 5

(***************************************************************************)
(* Layer::batch_id                                                         *)
(***************************************************************************)

\* Textures are told apart by their key(); MaxTextures distinct textures exist.
MaxTextures == 1

\* The caller's keys are 0..MaxKey.
MaxKey == 1

TextureKeys == 1..MaxTextures

\* Option<Texture>: None is <<>>, Some(t) is <<t>>.
None == <<>>

Some(t) == <<t>>

OptionTexture == {None} \cup {Some(t) : t \in TextureKeys}

\* struct Layer
Layers ==
    [diffuse_texture : OptionTexture, normal_texture : OptionTexture,
     specular_texture : OptionTexture, roughness_texture : OptionTexture,
     height_texture : OptionTexture, mask : OptionTexture]

\* Default for Layer: every texture absent.
DefaultLayer ==
    [diffuse_texture |-> None, normal_texture |-> None, specular_texture |-> None,
     roughness_texture |-> None, height_texture |-> None, mask |-> None]

\* DefaultHasher, as a hash without collisions: the state is the sequence of
\* the u64 values written so far, and finish() numbers that sequence in base
\* HashBase, one digit (value + 1) per value written.
HashBase == MaxTextures + MaxKey + 2

HasherNew == <<>>

HashWrite(hasher, value) == Append(hasher, value)

RECURSIVE HasherFinish(_)
HasherFinish(hasher) ==
    IF hasher = <<>>
    THEN 0
    ELSE HasherFinish(SubSeq(hasher, 1, Len(hasher) - 1)) * HashBase
             + hasher[Len(hasher)] + 1

\* [..].iter().filter_map(|t| *t): the textures that are present, in order.
RECURSIVE FilterMap(_)
FilterMap(options) ==
    IF options = <<>> THEN <<>> ELSE Head(options) \o FilterMap(Tail(options))

RECURSIVE HashAll(_, _)
HashAll(hasher, values) ==
    IF values = <<>>
    THEN hasher
    ELSE HashAll(HashWrite(hasher, Head(values)), Tail(values))

BatchIdWithMask(layer, key) ==
    HasherFinish(HashAll(HashWrite(HasherNew, key),
        FilterMap(<<layer.diffuse_texture, layer.normal_texture,
                    layer.specular_texture, layer.roughness_texture,
                    layer.height_texture, layer.mask>>)))

\* Layer::batch_id(&self, data_key: u64) -> u64
BatchId(layer, key) ==
    HasherFinish(HashAll(HashWrite(HasherNew, key),
        FilterMap(<<layer.diffuse_texture, layer.normal_texture,
                    layer.specular_texture, layer.roughness_texture,
                    layer.height_texture>>)))

(***************************************************************************)
(* f32 and u32 arithmetic of the terrain code                              *)
(***************************************************************************)

\* u32 is modelled on 31 bits, the widest word TLC's integers hold: the
\* largest value is odd, as u32::MAX is, and the value after it wraps to 0.
U32_MAX == 2147483647

\* f32::MAX stands above every height and coordinate of the model.
F32_MAX == 1000000

RECURSIVE GCD(_, _)
GCD(a, b) == IF b = 0 THEN a ELSE GCD(b, a % b)

Abs(n) == IF n < 0 THEN -n ELSE n

\* An f32 is a fraction n/d in lowest terms, d > 0; 1/0 is +infinity, -1/0 is
\* -infinity and 0/0 is NaN.
F32(n, d) ==
    IF d = 0
    THEN [n |-> IF n > 0 THEN 1 ELSE IF n < 0 THEN -1 ELSE 0, d |-> 0]
    ELSE LET g == GCD(Abs(n), Abs(d))
             s == IF d < 0 THEN -1 ELSE 1
         IN [n |-> s * (n \div g), d |-> s * (d \div g)]

\* `n as f32` of an integer.
AsF32(n) == [n |-> n, d |-> 1]

F32IsNaN(a) == a.n = 0 /\ a.d = 0

F32Add(a, b) ==
    IF a.d = 0 \/ b.d = 0
    THEN IF F32IsNaN(a) \/ F32IsNaN(b) THEN F32(0, 0)
         ELSE IF a.d = 0 /\ b.d = 0 THEN (IF a.n = b.n THEN a ELSE F32(0, 0))
         ELSE IF a.d = 0 THEN a ELSE b
    ELSE F32(a.n * b.d + b.n * a.d, a.d * b.d)

F32Mul(a, b) == F32(a.n * b.n, a.d * b.d)

F32Div(a, b) ==
    IF b.d = 0
    THEN (IF F32IsNaN(b) \/ a.d = 0 THEN F32(0, 0) ELSE F32(0, 1))
    ELSE IF b.n < 0 THEN F32(-(a.n * b.d), -(a.d * b.n)) ELSE F32(a.n * b.d, a.d * b.n)

F32Le(a, b) == a.n * b.d <= b.n * a.d

\* `x as u32` of an f32: truncation toward zero, saturating, NaN gives 0.
F32ToU32(a) ==
    IF a.d = 0
    THEN IF a.n > 0 THEN U32_MAX ELSE 0
    ELSE IF a.n <= 0 THEN 0
    ELSE IF a.n \div a.d > U32_MAX THEN U32_MAX ELSE a.n \div a.d

\* Vector3<f32>
Vector3(x, y, z) == <<x, y, z>>

Vector3Add(a, b) == <<F32Add(a[1], b[1]), F32Add(a[2], b[2]), F32Add(a[3], b[3])>>

(***************************************************************************)
(* Chunk                                                                   *)
(***************************************************************************)

\* SurfaceData::default() and SurfaceData::new(.., vec![], false): no vertex,
\* no triangle.
EmptySurfaceData == [vertex_buffer |-> <<>>, triangles |-> <<>>]

\* Normals and tangents are computed by calculate_normals / calculate_tangents
\* from the positions and triangles and add nothing that those do not fix:
\* a vertex is its position and texture coordinate.
StaticVertex(position, tex_coord) == [position |-> position, tex_coord |-> tex_coord]

TriangleDefinition(a, b, c) == <<a, b, c>>

\* The vertex of grid point (x, z): lines 87-106.
ChunkVertex(chunk, x, z) ==
    LET kz == F32Div(AsF32(z), AsF32(chunk.length_point_count - 1))
        pz == F32Add(chunk.position[3], F32Mul(kz, chunk.length))
        index == z * chunk.width_point_count + x
        height == chunk.heightmap[index + 1]
        kx == F32Div(AsF32(x), AsF32(chunk.width_point_count - 1))
        px == F32Add(chunk.position[1], F32Mul(kx, chunk.width))
        py == F32Add(chunk.position[2], AsF32(height))
    IN StaticVertex(Vector3(px, py, pz),
                    <<F32Mul(AsF32(10), kx), F32Mul(AsF32(10), kz)>>)

\* Lines 86-109: one vertex per grid point, z outer, x inner.
ChunkVertices(chunk) ==
    LET w == chunk.width_point_count
        l == chunk.length_point_count
    IN [i \in 1..(w * l) |-> ChunkVertex(chunk, (i - 1) % w, (i - 1) \div w)]

ChunkCellTrianglesColumnMajor(chunk, x, z) ==
    LET i0 == x * chunk.length_point_count + z
        i1 == x * chunk.length_point_count + z + 1
        i2 == (x + 1) * chunk.length_point_count + z + 1
        i3 == (x + 1) * chunk.length_point_count + z
    IN <<TriangleDefinition(i0, i1, i2), TriangleDefinition(i2, i3, i0)>>

\* Lines 118-128: the two triangles of the quad cell (x, z).
ChunkCellTriangles(chunk, x, z) ==
    LET z_next == z + 1
        x_next == x + 1
        i0 == z * chunk.width_point_count + x
        i1 == z_next * chunk.width_point_count + x
        i2 == z_next * chunk.width_point_count + x_next
        i3 == z * chunk.width_point_count + x_next
    IN <<TriangleDefinition(i0, i1, i2), TriangleDefinition(i2, i3, i0)>>

\* Lines 113-130: the cells in order, z outer, x inner.
ChunkTriangles(chunk) ==
    LET cw == chunk.width_point_count - 1
        cl == chunk.length_point_count - 1
    IN [i \in 1..(2 * cw * cl) |->
           ChunkCellTriangles(chunk, ((i - 1) \div 2) % cw, ((i - 1) \div 2) \div cw)
               [((i - 1) % 2) + 1]]

\* Whether a dirty chunk's regeneration fails to return: an assertion on the
\* point counts fails (lines 82-83), a heightmap index is out of range (line
\* 92), or a point count is 0 and `count - 1` underflows (lines 113, 115), which
\* panics with overflow checks and otherwise runs the loop 2^32 - 1 times until
\* memory is exhausted.
RegenerationPanics(width_point_count, length_point_count, heightmap_len) ==
    \/ width_point_count % 2 # 0
    \/ length_point_count % 2 # 0
    \/ heightmap_len < width_point_count * length_point_count
    \/ length_point_count = 0
    \/ width_point_count = 0

ChunkUpdatePanics(chunk) ==
    RegenerationPanics(chunk.width_point_count, chunk.length_point_count,
                       Len(chunk.heightmap))

ChunkUpdateKeepsDirty(chunk, surfaces) ==
    IF ~chunk.dirty
    THEN [panic |-> FALSE, chunk |-> chunk, surfaces |-> surfaces]
    ELSE IF ChunkUpdatePanics(chunk)
    THEN [panic |-> TRUE, chunk |-> chunk,
          surfaces |-> [surfaces EXCEPT ![chunk.surface_data] = EmptySurfaceData]]
    ELSE [panic |-> FALSE,
          chunk |-> chunk,
          surfaces |-> [surfaces EXCEPT ![chunk.surface_data] =
                           [vertex_buffer |-> ChunkVertices(chunk),
                            triangles |-> ChunkTriangles(chunk)]]]

\* Chunk::update(&mut self). surfaces maps each Arc<RwLock<SurfaceData>> to the
\* data it holds; a panic leaves the data cleared and the chunk dirty.
ChunkUpdate(chunk, surfaces) ==
    IF ~chunk.dirty
    THEN [panic |-> FALSE, chunk |-> chunk, surfaces |-> surfaces]
    ELSE IF ChunkUpdatePanics(chunk)
    THEN [panic |-> TRUE, chunk |-> chunk,
          surfaces |-> [surfaces EXCEPT ![chunk.surface_data] = EmptySurfaceData]]
    ELSE [panic |-> FALSE,
          chunk |-> [chunk EXCEPT !.dirty = FALSE],
          surfaces |-> [surfaces EXCEPT ![chunk.surface_data] =
                           [vertex_buffer |-> ChunkVertices(chunk),
                            triangles |-> ChunkTriangles(chunk)]]]

\* Chunk::data(&self): the data behind the chunk's Arc.
ChunkData(chunk, surfaces) == surfaces[chunk.surface_data]

(***************************************************************************)
(* Terrain                                                                 *)
(***************************************************************************)

\* AxisAlignedBoundingBox::from_min_max
FromMinMax(min, max) == [min |-> min, max |-> max]

\* AxisAlignedBoundingBox::default(): the inverted box.
DefaultBoundingBox ==
    FromMinMax(Vector3(AsF32(F32_MAX), AsF32(F32_MAX), AsF32(F32_MAX)),
               Vector3(AsF32(-F32_MAX), AsF32(-F32_MAX), AsF32(-F32_MAX)))

\* Lines 200-204 over one heightmap.
RECURSIVE MaxOverHeights(_, _)
MaxOverHeights(max_height, heightmap) ==
    IF heightmap = <<>>
    THEN max_height
    ELSE MaxOverHeights(IF Head(heightmap) > max_height THEN Head(heightmap)
                        ELSE max_height,
                        Tail(heightmap))

\* Lines 199-205 over the chunks.
RECURSIVE MaxOverChunks(_, _)
MaxOverChunks(max_height, chunks) ==
    IF chunks = <<>>
    THEN max_height
    ELSE MaxOverChunks(MaxOverHeights(max_height, Head(chunks).heightmap),
                       Tail(chunks))

\* Base::global_position(), through Deref.
GlobalPosition(terrain) == terrain.base.global_position

\* Lines 198-210: the box as computed from the current state.
ComputeBoundingBox(terrain) ==
    LET max_height == MaxOverChunks(-F32_MAX, terrain.chunks)
    IN FromMinMax(GlobalPosition(terrain),
                  Vector3Add(GlobalPosition(terrain),
                             Vector3(terrain.width, AsF32(max_height), terrain.length)))

\* Terrain::bounding_box(&self): the terrain after the call (the cache cells
\* are written through &self) and the box returned.
BoundingBox(terrain) ==
    IF terrain.bounding_box_dirty
    THEN [terrain |-> [terrain EXCEPT !.bounding_box = ComputeBoundingBox(terrain),
                                      !.bounding_box_dirty = FALSE],
          box |-> ComputeBoundingBox(terrain)]
    ELSE [terrain |-> terrain, box |-> terrain.bounding_box]

\* Terrain::update(&mut self): chunk.update() on every chunk, in order; the
\* first panic ends the call.
RECURSIVE UpdateChunks(_, _, _)
UpdateChunks(done, todo, surfaces) ==
    IF todo = <<>>
    THEN [panic |-> FALSE, chunks |-> done, surfaces |-> surfaces]
    ELSE LET r == ChunkUpdate(Head(todo), surfaces)
         IN IF r.panic
            THEN [panic |-> TRUE, chunks |-> done \o todo, surfaces |-> r.surfaces]
            ELSE UpdateChunks(Append(done, r.chunk), Tail(todo), r.surfaces)

TerrainUpdate(terrain, surfaces) ==
    LET r == UpdateChunks(<<>>, terrain.chunks, surfaces)
    IN [panic |-> r.panic,
        terrain |-> [terrain EXCEPT !.chunks = r.chunks],
        surfaces |-> r.surfaces]

\* Base::raw_copy keeps the transform.
BaseRawCopy(base) == base

\* Terrain::raw_copy(&self): the chunks are cloned by the derived Clone, which
\* clones each Arc, not the data behind it.
RawCopy(terrain) ==
    [width |-> terrain.width,
     length |-> terrain.length,
     base |-> BaseRawCopy(terrain.base),
     chunks |-> terrain.chunks,
     bounding_box_dirty |-> TRUE,
     bounding_box |-> DefaultBoundingBox]

(***************************************************************************)
(* TerrainBuilder                                                          *)
(***************************************************************************)

\* TerrainBuilder::new: lines 275-285.
DefaultWidth == 64

DefaultLength == 64

DefaultWidthChunks == 2

DefaultLengthChunks == 2

DefaultMaskResolution == 16

DefaultResolution == 8

TerrainBuilderNew ==
    [width |-> AsF32(DefaultWidth),
     length |-> AsF32(DefaultLength),
     width_chunks |-> DefaultWidthChunks,
     length_chunks |-> DefaultLengthChunks,
     mask_resolution |-> AsF32(DefaultMaskResolution),
     resolution |-> AsF32(DefaultResolution),
     layers |-> <<>>]

MakeDivisibleBy2Identity(n, checked) == [panic |-> FALSE, value |-> n]

\* make_divisible_by_2(n: u32) -> u32. n + 1 overflows for n = u32::MAX: a
\* panic with overflow checks, 0 without.
MakeDivisibleBy2(n, checked) ==
    IF n % 2 = 1
    THEN IF n = U32_MAX
         THEN [panic |-> checked, value |-> 0]
         ELSE [panic |-> FALSE, value |-> n + 1]
    ELSE [panic |-> FALSE, value |-> n]

\* Lines 324-329 of TerrainBuilder::build.
BuilderDims(self, checked) ==
    LET chunk_length == F32Div(self.length, AsF32(self.length_chunks))
        chunk_width == F32Div(self.width, AsF32(self.width_chunks))
        length_points ==
            MakeDivisibleBy2(F32ToU32(F32Mul(chunk_length, self.resolution)),
                             checked)
        width_points ==
            MakeDivisibleBy2(F32ToU32(F32Mul(chunk_width, self.resolution)),
                             checked)
    IN [panic |-> length_points.panic \/ width_points.panic,
        chunk_length |-> chunk_length,
        chunk_width |-> chunk_width,
        chunk_length_points |-> length_points.value,
        chunk_width_points |-> width_points.value,
        chunk_mask_width |-> F32ToU32(F32Mul(chunk_width, self.mask_resolution)),
        chunk_mask_height |-> F32ToU32(F32Mul(chunk_length, self.mask_resolution))]

\* Lines 336-354: one layer per definition, with a mask of the chunk's own.
BuildLayer(definition, dims) ==
    [diffuse_texture |-> definition.diffuse_texture,
     normal_texture |-> definition.normal_texture,
     specular_texture |-> definition.specular_texture,
     roughness_texture |-> definition.roughness_texture,
     height_texture |-> definition.height_texture,
     mask |-> [width |-> dims.chunk_mask_width,
               height |-> dims.chunk_mask_height,
               bytes |-> [len |-> dims.chunk_mask_width * dims.chunk_mask_height,
                          value |-> 255]]]

\* Lines 332-365: the chunk at grid place (x, z), but for its heightmap and
\* its surface data.
ChunkHeader(self, dims, x, z) ==
    [width_point_count |-> dims.chunk_width_points,
     length_point_count |-> dims.chunk_length_points,
     heightmap_len |-> dims.chunk_length_points * dims.chunk_width_points,
     layers |-> [i \in 1..Len(self.layers) |-> BuildLayer(self.layers[i], dims)],
     position |-> Vector3(F32Mul(AsF32(x), dims.chunk_width), AsF32(0),
                          F32Mul(AsF32(z), dims.chunk_length)),
     width |-> dims.chunk_width,
     length |-> dims.chunk_length,
     dirty |-> TRUE]

\* Lines 330-367: the chunks in the order pushed, z outer, x inner.
ChunkHeaders(self, dims) ==
    [i \in 1..(self.length_chunks * self.width_chunks) |->
        ChunkHeader(self, dims, (i - 1) % self.width_chunks,
                    (i - 1) \div self.width_chunks)]

\* The chunk with its heightmap (vec![0.0; n]) and a new Arc for its data.
ChunkOfHeader(header, arc) ==
    [heightmap |-> [i \in 1..header.heightmap_len |-> 0],
     layers |-> header.layers,
     position |-> header.position,
     width |-> header.width,
     length |-> header.length,
     width_point_count |-> header.width_point_count,
     length_point_count |-> header.length_point_count,
     surface_data |-> arc,
     dirty |-> header.dirty]

\* TerrainBuilder::build up to graph.add_node: the terrain, the Arcs that now
\* exist, and whether the call panicked (in build itself or in the
\* terrain.update() of line 378).
TerrainBuilderBuild(self, base, surfaces, checked) ==
    LET dims == BuilderDims(self, checked)
        headers == IF dims.panic THEN <<>> ELSE ChunkHeaders(self, dims)
        chunks == [i \in 1..Len(headers) |-> ChunkOfHeader(headers[i], Len(surfaces) + i)]
        terrain == [width |-> self.width,
                    length |-> self.length,
                    base |-> base,
                    chunks |-> chunks,
                    bounding_box_dirty |-> TRUE,
                    bounding_box |-> DefaultBoundingBox]
        updated == TerrainUpdate(terrain,
                                 surfaces \o [i \in 1..Len(headers) |-> EmptySurfaceData])
    IN IF dims.panic
       THEN [panic |-> TRUE, terrain |-> NONE, surfaces |-> surfaces]
       ELSE [panic |-> updated.panic, terrain |-> updated.terrain,
             surfaces |-> updated.surfaces]

(***************************************************************************)
(* Visit for Chunk and Terrain (the derived implementations)               *)
(***************************************************************************)

\* #[derive(Default)] for Chunk: empty vectors, zero counts, a new Arc with
\* SurfaceData::default(), and Cell<bool>::default(), which is false.
DefaultChunk(arc) ==
    [heightmap |-> <<>>,
     layers |-> <<>>,
     position |-> Vector3(AsF32(0), AsF32(0), AsF32(0)),
     width |-> AsF32(0),
     length |-> AsF32(0),
     width_point_count |-> 0,
     length_point_count |-> 0,
     surface_data |-> arc,
     dirty |-> FALSE]

\* #[derive(Visit)] for Chunk, writing: every field but the two marked
\* #[visit(skip)], surface_data and dirty.
ChunkVisitWrite(chunk) ==
    [heightmap |-> chunk.heightmap,
     layers |-> chunk.layers,
     position |-> chunk.position,
     width |-> chunk.width,
     length |-> chunk.length,
     width_point_count |-> chunk.width_point_count,
     length_point_count |-> chunk.length_point_count]

\* #[derive(Visit)] for Chunk, reading into `chunk`: the skipped fields keep
\* the values `chunk` had.
ChunkVisitRead(chunk, data) ==
    [heightmap |-> data.heightmap,
     layers |-> data.layers,
     position |-> data.position,
     width |-> data.width,
     length |-> data.length,
     width_point_count |-> data.width_point_count,
     length_point_count |-> data.length_point_count,
     surface_data |-> chunk.surface_data,
     dirty |-> chunk.dirty]

\* #[derive(Default)] for Terrain: no chunk, Cell<bool>::default() (false) and
\* the default box.
DefaultTerrain ==
    [width |-> AsF32(0),
     length |-> AsF32(0),
     base |-> [global_position |-> Vector3(AsF32(0), AsF32(0), AsF32(0))],
     chunks |-> <<>>,
     bounding_box_dirty |-> FALSE,
     bounding_box |-> DefaultBoundingBox]

\* #[derive(Visit)] for Terrain, writing: no field of Terrain is marked skip,
\* so the two cache cells are written with the rest.
TerrainVisitWrite(terrain) ==
    [width |-> terrain.width,
     length |-> terrain.length,
     base |-> terrain.base,
     chunks |-> [i \in 1..Len(terrain.chunks) |-> ChunkVisitWrite(terrain.chunks[i])],
     bounding_box_dirty |-> terrain.bounding_box_dirty,
     bounding_box |-> terrain.bounding_box]

\* #[derive(Visit)] for Terrain, reading into Terrain::default(): each chunk is
\* read into a Chunk::default() with an Arc of its own.
TerrainVisitRead(data, surfaces) ==
    [terrain |->
        [width |-> data.width,
         length |-> data.length,
         base |-> data.base,
         chunks |-> [i \in 1..Len(data.chunks) |->
                        ChunkVisitRead(DefaultChunk(Len(surfaces) + i), data.chunks[i])],
         bounding_box_dirty |-> data.bounding_box_dirty,
         bounding_box |-> data.bounding_box],
     surfaces |-> surfaces \o [i \in 1..Len(data.chunks) |-> EmptySurfaceData]]

(***************************************************************************)
(* Brush                                                                   *)
(***************************************************************************)

F32Sub(a, b) == F32Add(a, [n |-> -b.n, d |-> b.d])

\* BrushKind
Circle(radius) == [tag |-> "Circle", radius |-> radius]

Rectangle(width, length) == [tag |-> "Rectangle", width |-> width, length |-> length]

\* BrushMode::ChangeHeight
ChangeHeight(amount) == [tag |-> "ChangeHeight", amount |-> amount]

\* struct Brush
Brush(position, kind, mode) == [position |-> position, kind |-> kind, mode |-> mode]

\* Where sample `index` of a chunk lies in the terrain's plane: the place
\* Chunk::update gives its vertex.
SamplePlace(chunk, index) ==
    LET v == ChunkVertex(chunk, index % chunk.width_point_count,
                         index \div chunk.width_point_count)
    IN <<v.position[1], v.position[3]>>

\* Whether the brush, placed in world coordinates, covers a place of the
\* terrain's plane.
BrushCovers(brush, terrain, place) ==
    LET dx == F32Sub(F32Add(place[1], GlobalPosition(terrain)[1]), brush.position[1])
        dz == F32Sub(F32Add(place[2], GlobalPosition(terrain)[3]), brush.position[3])
    IN IF brush.kind.tag = "Circle"
       THEN F32Le(F32Add(F32Mul(dx, dx), F32Mul(dz, dz)),
                  F32Mul(brush.kind.radius, brush.kind.radius))
       ELSE /\ F32Le(F32Mul(AsF32(4), F32Mul(dx, dx)),
                     F32Mul(brush.kind.width, brush.kind.width))
            /\ F32Le(F32Mul(AsF32(4), F32Mul(dz, dz)),
                     F32Mul(brush.kind.length, brush.kind.length))

ChunkTouched(brush, terrain, chunk) ==
    \E i \in 1..Len(chunk.heightmap) : BrushCovers(brush, terrain, SamplePlace(chunk, i - 1))

\* The brush in ChangeHeight mode on one chunk: the covered samples move by
\* the amount and the chunk is marked dirty.
BrushChunk(brush, terrain, chunk) ==
    IF ChunkTouched(brush, terrain, chunk)
    THEN [chunk EXCEPT
            !.heightmap = [i \in 1..Len(chunk.heightmap) |->
                IF BrushCovers(brush, terrain, SamplePlace(chunk, i - 1))
                THEN chunk.heightmap[i] + brush.mode.amount
                ELSE chunk.heightmap[i]],
            !.dirty = TRUE]
    ELSE chunk

\* Applying a ChangeHeight brush to a terrain: the chunks it touches are
\* edited and marked dirty, and the bounding box cache is invalidated.
ApplyBrush(terrain, brush) ==
    [terrain EXCEPT
        !.chunks = [i \in 1..Len(terrain.chunks) |->
                       BrushChunk(brush, terrain, terrain.chunks[i])],
        !.bounding_box_dirty =
            IF \E i \in 1..Len(terrain.chunks) :
                   ChunkTouched(brush, terrain, terrain.chunks[i])
            THEN TRUE
            ELSE terrain.bounding_box_dirty]

\* The hierarchy update writing a new global position into the terrain's Base,
\* reached through DerefMut.
SetGlobalPosition(terrain, position) ==
    [terrain EXCEPT !.base.global_position = position]

(***************************************************************************)
(* The inputs of SpecTerrain                                               *)
(***************************************************************************)

\* The widths of the terrains built are 0 and MaxSide; their length is 3, so
\* that a chunk has up to 4 x 4 points and 3 x 3 cells.
MaxSide == 4

\* Terrains are built with 0..MaxWidthChunks chunks along x.
MaxWidthChunks == 2

\* Brushes change heights by MaxAmount, up or down.
MaxAmount == 1

\* The number of operations on a built terrain of one run.
MaxSteps == 3

\* Two terrains are followed: the one built, and a copy of it made by
\* raw_copy or read back from the saved state.
BuiltSlot == 1

CopySlot == 2

TerrainSlots == {BuiltSlot, CopySlot}

TerrainBuilders ==
    {[TerrainBuilderNew EXCEPT !.width = AsF32(w),
                               !.length = AsF32(3),
                               !.width_chunks = wc,
                               !.length_chunks = 1,
                               !.resolution = AsF32(1)] :
        w \in {0, MaxSide}, wc \in 0..MaxWidthChunks}

\* The global positions of a terrain: the origin, where it is built, and
\* (1, 1, 0), where it may be moved.
Positions == {Vector3(AsF32(x), AsF32(x), AsF32(0)) : x \in {0, 1}}

\* BaseBuilder::build_base: a node at the origin.
BuildBase == [global_position |-> Vector3(AsF32(0), AsF32(0), AsF32(0))]

\* The brushes tried on a terrain: a point brush raising its first corner, one
\* lowering its last, and a rectangle over all of it, raising or lowering.
Brushes(terrain) ==
    LET near == GlobalPosition(terrain)
        far == Vector3Add(near, Vector3(terrain.width, AsF32(0), terrain.length))
        two == AsF32(2)
    IN {Brush(near, Circle(AsF32(0)), ChangeHeight(MaxAmount)),
        Brush(far, Circle(AsF32(0)), ChangeHeight(-MaxAmount))}
       \cup {Brush(near, Rectangle(F32Mul(two, terrain.width), F32Mul(two, terrain.length)),
                   ChangeHeight(a)) : a \in {-MaxAmount, MaxAmount}}

(***************************************************************************)
(* The inputs of SpecBuilder                                               *)
(***************************************************************************)

\* Chunk counts are 0..MaxChunks.
MaxChunks == 2

\* Builders carry 0..MaxLayers layer definitions.
MaxLayers == 1

\* build is run on the grids of at most MaxPoints points a side.
MaxPoints == 4

\* Widths and lengths tried: nothing, less than a chunk, an odd size, the
\* default.
BuilderSizes == {0, 1, 3, 6, DefaultWidth}

BuilderResolutions == {AsF32(0), F32(1, 2), AsF32(1), AsF32(DefaultResolution)}

\* struct LayerDefinition, every texture absent.
DefaultLayerDefinition ==
    [diffuse_texture |-> None, normal_texture |-> None, specular_texture |-> None,
     roughness_texture |-> None, height_texture |-> None]

(***************************************************************************)
(* Node                                                                    *)
(***************************************************************************)

\* Handle::NONE; the handles of nodes are 1, 2, ...
HandleNONE == 0

\* Transform::identity() and Mat4::identity(); the other transforms and
\* matrices are 1, 2, ...
Identity == 0

\* Node::new(kind: NodeKind) -> Self
NodeNew(kind) ==
    [kind |-> kind,
     name |-> "",
     children |-> <<>>,
     parent |-> HandleNONE,
     visibility |-> TRUE,
     global_visibility |-> TRUE,
     local_transform |-> Identity,
     global_transform |-> Identity,
     inv_bind_pose_transform |-> Identity,
     resource |-> None,
     original |-> HandleNONE,
     is_resource_instance |-> FALSE]

\* impl Default for Node
NodeDefault == NodeNew(Base)

\* Node::get_resource(&self): a clone of the Option<Arc<..>>.
GetResource(self) == self.resource

MakeCopyKeepsLinks(self, original) ==
    [kind |-> self.kind,
     name |-> self.name,
     local_transform |-> self.local_transform,
     global_transform |-> self.global_transform,
     visibility |-> self.visibility,
     global_visibility |-> self.global_visibility,
     inv_bind_pose_transform |-> self.inv_bind_pose_transform,
     children |-> self.children,
     parent |-> self.parent,
     resource |-> GetResource(self),
     is_resource_instance |-> self.is_resource_instance,
     original |-> original]

\* Node::make_copy(&self, original: Handle<Node>) -> Self
MakeCopy(self, original) ==
    [kind |-> self.kind,
     name |-> self.name,
     local_transform |-> self.local_transform,
     global_transform |-> self.global_transform,
     visibility |-> self.visibility,
     global_visibility |-> self.global_visibility,
     inv_bind_pose_transform |-> self.inv_bind_pose_transform,
     children |-> <<>>,
     parent |-> HandleNONE,
     resource |-> GetResource(self),
     is_resource_instance |-> self.is_resource_instance,
     original |-> original]

\* Node::set_original_handle
SetOriginalHandle(self, original) == [self EXCEPT !.original = original]

\* Node::set_resource
SetResource(self, resource_handle) == [self EXCEPT !.resource = Some(resource_handle)]

\* Node::get_local_transform_mut, and a write through the reference.
WriteLocalTransform(self, transform) == [self EXCEPT !.local_transform = transform]

\* Node::get_kind_mut, and a write through the reference into the variant.
WriteKind(self, payload) ==
    IF self.kind.tag = "Base" THEN self ELSE [self EXCEPT !.kind.payload = payload]

SetVisibilityGlobally(self, visibility) ==
    [self EXCEPT !.visibility = visibility, !.global_visibility = visibility]

\* Node::set_visibility
SetVisibility(self, visibility) == [self EXCEPT !.visibility = visibility]

\* Node::set_name
SetName(self, name) == [self EXCEPT !.name = name]

\* Node::set_inv_bind_pose_transform
SetInvBindPoseTransform(self, transform) ==
    [self EXCEPT !.inv_bind_pose_transform = transform]

\* The crate's own write to the pub(in crate) field, done when a resource is
\* instantiated.
WriteIsResourceInstance(self, flag) == [self EXCEPT !.is_resource_instance = flag]

\* The scene's own writes to the pub(in crate::scene) fields: linking a node
\* into the graph and the hierarchy update.
LinkNode(self, parent, children) == [self EXCEPT !.parent = parent, !.children = children]

UpdateHierarchy(self, global_transform, global_visibility) ==
    [self EXCEPT !.global_transform = global_transform,
                 !.global_visibility = global_visibility]

(***************************************************************************)
(* Visit for Node                                                          *)
(***************************************************************************)

\* A visitor: whether it reads or writes, how many regions are entered, and
\* the named fields of the node's region.
VisitorNew == [reading |-> FALSE, depth |-> 0, fields |-> <<>>]

\* The same data, opened for reading.
VisitorLoad(visitor) == [reading |-> TRUE, depth |-> 0, fields |-> visitor.fields]

\* Visitor::enter_region
EnterRegion(visitor) == [ok |-> TRUE, visitor |-> [visitor EXCEPT !.depth = @ + 1]]

\* Visitor::leave_region
LeaveRegion(visitor) == [ok |-> TRUE, visitor |-> [visitor EXCEPT !.depth = @ - 1]]

\* value.visit(name, visitor) of a plain value: written under the name, or
\* replaced by what is stored under it; reading a name that is not there fails.
VisitValue(value, name, visitor) ==
    IF visitor.reading
    THEN IF name \in DOMAIN visitor.fields
         THEN [ok |-> TRUE, value |-> visitor.fields[name], visitor |-> visitor]
         ELSE [ok |-> FALSE, value |-> value, visitor |-> visitor]
    ELSE [ok |-> TRUE, value |-> value,
          visitor |-> [visitor EXCEPT !.fields = (name :> value) @@ @]]

\* impl Visit for NodeKind: Base visits nothing, the other variants visit
\* what they carry.
NodeKindVisit(kind, name, visitor) ==
    IF kind.tag = "Base"
    THEN [ok |-> TRUE, value |-> kind, visitor |-> visitor]
    ELSE LET r == VisitValue(kind.payload, name, visitor)
         IN [ok |-> r.ok, value |-> [kind EXCEPT !.payload = r.value],
             visitor |-> r.visitor]

\* Lines 322-328: the fields visited after the kind, with their names.
NodeFields ==
    <<<<"name", "Name">>, <<"local_transform", "Transform">>,
      <<"visibility", "Visibility">>, <<"parent", "Parent">>,
      <<"children", "Children">>, <<"resource", "Resource">>,
      <<"is_resource_instance", "IsResourceInstance">>>>

\* What a visit returns: the result, and the node and the visitor as the call
\* left them.
Visited(result, self, visitor) == [result |-> result, node |-> self, visitor |-> visitor]

\* Lines 322-330: each field in turn, `?` returning at the first error, then
\* leave_region.
RECURSIVE VisitFields(_, _, _)
VisitFields(self, fields, visitor) ==
    IF fields = <<>>
    THEN LET left == LeaveRegion(visitor)
         IN Visited(IF left.ok THEN "Ok" ELSE "Err", self, left.visitor)
    ELSE LET r == VisitValue(self[Head(fields)[1]], Head(fields)[2], visitor)
         IN IF ~r.ok
            THEN Visited("Err", self, r.visitor)
            ELSE VisitFields([self EXCEPT ![Head(fields)[1]] = r.value],
                             Tail(fields), r.visitor)

NodeVisitSkipsParent(self, visitor) ==
    LET entered == EnterRegion(visitor)
        id == VisitValue(NodeKindId(self.kind), "KindId", entered.visitor)
        made == IF id.visitor.reading THEN NodeKindNew(id.value) ELSE Ok(self.kind)
        kind == NodeKindVisit(made.value, "Kind", id.visitor)
    IN IF ~entered.ok THEN Visited("Err", self, entered.visitor)
       ELSE IF ~id.ok THEN Visited("Err", self, id.visitor)
       ELSE IF made.tag = "Err" THEN Visited("Err", self, id.visitor)
       ELSE IF ~kind.ok THEN Visited("Err", [self EXCEPT !.kind = kind.value], kind.visitor)
       ELSE VisitFields([self EXCEPT !.kind = kind.value],
                        SelectSeq(NodeFields, LAMBDA f : f[1] # "parent"), kind.visitor)

\* impl Visit for Node: visit(&mut self, name, visitor) -> VisitResult
NodeVisit(self, visitor) ==
    LET entered == EnterRegion(visitor)
        id == VisitValue(NodeKindId(self.kind), "KindId", entered.visitor)
        made == IF id.visitor.reading THEN NodeKindNew(id.value) ELSE Ok(self.kind)
        kind == NodeKindVisit(made.value, "Kind", id.visitor)
    IN IF ~entered.ok THEN Visited("Err", self, entered.visitor)
       ELSE IF ~id.ok THEN Visited("Err", self, id.visitor)
       ELSE IF made.tag = "Err" THEN Visited("Err", self, id.visitor)
       ELSE IF ~kind.ok THEN Visited("Err", [self EXCEPT !.kind = kind.value], kind.visitor)
       ELSE VisitFields([self EXCEPT !.kind = kind.value], NodeFields, kind.visitor)

(***************************************************************************)
(* The inputs of SpecNode                                                  *)
(***************************************************************************)

\* The number of operations on the node of one run.
MaxNodeSteps == 3

\* Handle<Node>: NONE and a node of the pool.
Handles == HandleNONE..1

\* Transform and Mat4: the identity and another one.
Transforms == Identity..1

\* What a variant carries: the default and another value.
Payloads == DefaultPayload..1

\* Arc<Mutex<Model>>: one model resource.
Resources == {1}

Names == {"", "node"}

\* Vec<Handle<Node>>: no child, one child, two children out of pool order.
ChildLists == {<<>>, <<1>>, <<2, 1>>}

\* NodeKind: every variant with everything it may carry.
NodeKinds == {Base} \cup {MakeKind(tag, p) : tag \in KindTags \ {"Base"}, p \in Payloads}

(***************************************************************************)
(* FrameBuffer: the trait GpuFrameBufferTrait declares the operations; the *)
(* backend that implements them is modelled from their documentation.      *)
(***************************************************************************)

\* The pixels of the textures attached to a frame buffer: two by two.
Pixels == (0..1) \X (0..1)

\* What a texture holds in every pixel before anything is drawn to it.
EmptyPixel == 0

\* Rect<i32>: position and size.
Rect(x, y, w, h) == [position |-> <<x, y>>, size |-> <<w, h>>]

\* Whether a pixel lies in the rectangle x0 <= x < x1, y0 <= y < y1.
InBox(p, x0, y0, x1, y1) == x0 <= p[1] /\ p[1] < x1 /\ y0 <= p[2] /\ p[2] < y1

InRect(p, rect) ==
    InBox(p, rect.position[1], rect.position[2],
          rect.position[1] + rect.size[1], rect.position[2] + rect.size[2])

\* A texture with the same value in every pixel.
Filled(value) == [p \in Pixels |-> value]

\* AttachmentKind
AttachmentKinds == {"Color", "DepthStencil", "Depth"}

\* Attachment::color(texture): the texture is what its pixels hold.
AttachmentColor(texture) == [kind |-> "Color", texture |-> texture]

\* Attachment::depth(texture): a depth value in every pixel.
AttachmentDepth(depth) == [kind |-> "Depth", texture |-> [depth |-> depth]]

\* Attachment::depth_stencil(texture): a depth and a stencil value in every
\* pixel.
AttachmentDepthStencil(depth, stencil) ==
    [kind |-> "DepthStencil", texture |-> [depth |-> depth, stencil |-> stencil]]

\* A frame buffer: its color attachments in order and its optional
\* depth/stencil attachment.
FrameBuffer(color_attachments, depth_attachment) ==
    [color_attachments |-> color_attachments, depth_attachment |-> depth_attachment]

\* GpuFrameBufferTrait::color_attachments
ColorAttachments(self) == self.color_attachments

\* GpuFrameBufferTrait::depth_attachment
DepthAttachment(self) == self.depth_attachment

HasDepth(self) == DepthAttachment(self) # None

HasStencil(self) == HasDepth(self) /\ DepthAttachment(self)[1].kind = "DepthStencil"

\* The planes of a frame buffer, EmptyPixel where it has none.
ColorPlane(self, i) == ColorAttachments(self)[i].texture

DepthPlane(self) ==
    IF HasDepth(self) THEN DepthAttachment(self)[1].texture.depth ELSE Filled(EmptyPixel)

StencilPlane(self) ==
    IF HasStencil(self) THEN DepthAttachment(self)[1].texture.stencil ELSE Filled(EmptyPixel)

\* A plane with the pixels of the viewport set to the value.
ClearPlane(plane, viewport, value) ==
    [p \in Pixels |-> IF InRect(p, viewport) THEN value ELSE plane[p]]

\* The depth/stencil attachment with its planes replaced.
WithPlanes(attachment, depth, stencil) ==
    IF attachment.kind = "DepthStencil"
    THEN AttachmentDepthStencil(depth, stencil)
    ELSE AttachmentDepth(depth)

FrameBufferClearIgnoresOptions(self, viewport, color, depth, stencil) ==
    FrameBuffer(
        [i \in DOMAIN ColorAttachments(self) |->
            AttachmentColor(ClearPlane(ColorPlane(self, i), viewport,
                                       IF color = None THEN EmptyPixel ELSE color[1]))],
        IF ~HasDepth(self) THEN None
        ELSE Some(WithPlanes(DepthAttachment(self)[1],
                ClearPlane(DepthPlane(self), viewport,
                           IF depth = None THEN EmptyPixel ELSE depth[1]),
                ClearPlane(StencilPlane(self), viewport,
                           IF stencil = None THEN EmptyPixel ELSE stencil[1]))))

\* GpuFrameBufferTrait::clear(&self, viewport, color, depth, stencil)
FrameBufferClear(self, viewport, color, depth, stencil) ==
    FrameBuffer(
        [i \in DOMAIN ColorAttachments(self) |->
            IF color = None THEN ColorAttachments(self)[i]
            ELSE AttachmentColor(ClearPlane(ColorPlane(self, i), viewport, color[1]))],
        IF ~HasDepth(self) THEN None
        ELSE Some(WithPlanes(DepthAttachment(self)[1],
                IF depth = None THEN DepthPlane(self)
                ELSE ClearPlane(DepthPlane(self), viewport, depth[1]),
                IF stencil = None THEN StencilPlane(self)
                ELSE ClearPlane(StencilPlane(self), viewport, stencil[1]))))

\* Nearest interpolation along one axis: the source coordinate under the
\* centre of destination coordinate d.
Nearest(d, dst0, dst1, src0, src1) ==
    src0 + (((2 * (d - dst0) + 1) * (src1 - src0)) \div (2 * (dst1 - dst0)))

\* The region of a blit: source and destination corners.
BlitRegion(src_x0, src_y0, src_x1, src_y1, dst_x0, dst_y0, dst_x1, dst_y1) ==
    [src_x0 |-> src_x0, src_y0 |-> src_y0, src_x1 |-> src_x1, src_y1 |-> src_y1,
     dst_x0 |-> dst_x0, dst_y0 |-> dst_y0, dst_x1 |-> dst_x1, dst_y1 |-> dst_y1]

\* The source pixel pasted to a destination pixel of the region.
SourcePixel(p, r) ==
    <<Nearest(p[1], r.dst_x0, r.dst_x1, r.src_x0, r.src_x1),
      Nearest(p[2], r.dst_y0, r.dst_y1, r.src_y0, r.src_y1)>>

\* A destination plane with the region pasted from a source plane; pixels
\* whose source lies outside the source texture are left alone.
BlitPlane(src_plane, dst_plane, r) ==
    [p \in Pixels |->
        IF /\ InBox(p, r.dst_x0, r.dst_y0, r.dst_x1, r.dst_y1)
           /\ SourcePixel(p, r) \in Pixels
        THEN src_plane[SourcePixel(p, r)]
        ELSE dst_plane[p]]

FrameBufferBlitToAllOrNothing(self, dest, r, copy_color, copy_depth, copy_stencil) ==
    LET any == copy_color \/ copy_depth \/ copy_stencil
    IN FrameBuffer(
        [i \in DOMAIN ColorAttachments(dest) |->
            IF any /\ ColorAttachments(self) # <<>>
            THEN AttachmentColor(BlitPlane(ColorPlane(self, 1), ColorPlane(dest, i), r))
            ELSE ColorAttachments(dest)[i]],
        IF ~HasDepth(dest) THEN None
        ELSE Some(WithPlanes(DepthAttachment(dest)[1],
                IF any /\ HasDepth(self)
                THEN BlitPlane(DepthPlane(self), DepthPlane(dest), r)
                ELSE DepthPlane(dest),
                IF any /\ HasStencil(self)
                THEN BlitPlane(StencilPlane(self), StencilPlane(dest), r)
                ELSE StencilPlane(dest))))

\* GpuFrameBufferTrait::blit_to(&self, dest, src_x0, .., dst_y1, copy_color,
\* copy_depth, copy_stencil): what dest holds afterwards.  The color that is
\* read is the first color attachment of self, and it is pasted into every
\* color attachment of dest; depth and stencil go from the depth/stencil
\* attachment of self to that of dest, where both have the plane.
FrameBufferBlitTo(self, dest, r, copy_color, copy_depth, copy_stencil) ==
    FrameBuffer(
        [i \in DOMAIN ColorAttachments(dest) |->
            IF copy_color /\ ColorAttachments(self) # <<>>
            THEN AttachmentColor(BlitPlane(ColorPlane(self, 1), ColorPlane(dest, i), r))
            ELSE ColorAttachments(dest)[i]],
        IF ~HasDepth(dest) THEN None
        ELSE Some(WithPlanes(DepthAttachment(dest)[1],
                IF copy_depth /\ HasDepth(self)
                THEN BlitPlane(DepthPlane(self), DepthPlane(dest), r)
                ELSE DepthPlane(dest),
                IF copy_stencil /\ HasStencil(self)
                THEN BlitPlane(StencilPlane(self), StencilPlane(dest), r)
                ELSE StencilPlane(dest))))

(***************************************************************************)
(* The inputs of SpecFrameBuffer                                           *)
(***************************************************************************)

\* The number of operations on the frame buffers of one run.
MaxFrameBufferSteps == 1

\* A plane that holds a different value in every pixel, from base + 1 on.
Pattern(base) == [p \in Pixels |-> base + 2 * p[2] + p[1] + 1]

\* The optional depth/stencil attachment of the given kind, its planes drawn
\* to or empty.
MakeDepthAttachment(kind, drawn) ==
    IF kind = "Depth"
    THEN Some(AttachmentDepth(IF drawn THEN Pattern(20) ELSE Filled(EmptyPixel)))
    ELSE IF kind = "DepthStencil"
    THEN Some(AttachmentDepthStencil(IF drawn THEN Pattern(20) ELSE Filled(EmptyPixel),
                                     IF drawn THEN Pattern(30) ELSE Filled(EmptyPixel)))
    ELSE None

\* A frame buffer something was drawn to: two color attachments.
DrawnFrameBuffer(kind) ==
    FrameBuffer(<<AttachmentColor(Pattern(0)), AttachmentColor(Pattern(10))>>,
                MakeDepthAttachment(kind, TRUE))

\* A frame buffer nothing was drawn to yet: two color attachments.
EmptyFrameBuffer(kind) ==
    FrameBuffer(<<AttachmentColor(Filled(EmptyPixel)), AttachmentColor(Filled(EmptyPixel))>>,
                MakeDepthAttachment(kind, FALSE))

\* The kinds of the depth/stencil attachment, "None" for a frame buffer
\* without one.
DepthKinds == {"None", "Depth", "DepthStencil"}

\* The viewports cleared: everything, the right column, and a rectangle
\* that starts at the right column and reaches beyond the texture.
Viewports == {Rect(0, 0, 2, 2), Rect(1, 0, 1, 2), Rect(1, 1, 2, 2)}

\* The regions blitted: all to all, the top left pixel stretched over
\* everything, all shrunk to the right column, the left column to the right.
BlitRegions ==
    {BlitRegion(0, 0, 2, 2, 0, 0, 2, 2), BlitRegion(0, 0, 1, 1, 0, 0, 2, 2),
     BlitRegion(0, 0, 2, 2, 1, 0, 2, 2), BlitRegion(0, 0, 1, 2, 1, 0, 2, 2)}

\* The values cleared to.
ClearColors == {None, Some(40)}

ClearDepths == {None, Some(50)}

ClearStencils == {None, Some(60)}

(***************************************************************************)
(* FrameBuffer: draw and draw_instances, declared by GpuFrameBufferTrait   *)
(* and modelled from their documentation.                                  *)
(***************************************************************************)

\* GpuGeometryBuffer: the number of triangles its index buffer holds.
GeometryBuffer(triangles) == [triangles |-> triangles]

\* ElementRange: everything, or `count` triangles from `offset` on.
ElementRangeFull == [tag |-> "Full"]

ElementRangeSpecific(offset, count) == [tag |-> "Specific", offset |-> offset, count |-> count]

\* ResourceBinding::texture / ResourceBinding::buffer: the resource bound and
\* whether it still exists.
ResourceBindingTexture(alive) == [tag |-> "Texture", alive |-> alive]

ResourceBindingBuffer(alive) == [tag |-> "Buffer", alive |-> alive]

\* ResourceBindGroup
ResourceBindGroup(bindings) == [bindings |-> bindings]

\* DrawParameters: of the pipeline state, whether a depth test is requested.
DrawParameters(depth_test) == [depth_test |-> depth_test]

\* DrawCallStatistics
DrawCallStatistics(triangles) == [triangles |-> triangles]

\* The triangles an element range selects of a geometry buffer.
RangeCount(geometry, element_range) ==
    IF element_range.tag = "Full" THEN geometry.triangles ELSE element_range.count

\* Whether the element range reaches beyond the geometry buffer.
RangeExceeds(geometry, element_range) ==
    /\ element_range.tag = "Specific"
    /\ element_range.offset + element_range.count > geometry.triangles

\* Whether a binding of the groups references a destroyed resource.
BindsDestroyed(resources) ==
    \E g \in DOMAIN resources :
        \E b \in DOMAIN resources[g].bindings : ~resources[g].bindings[b].alive

\* Whether the pipeline state asks for what the attachments do not have.
Incompatible(self, params) == params.depth_test /\ ~HasDepth(self)

\* The frame buffer after a submission that drew something in the viewport:
\* the colour attachments hold what the program wrote (70) there.
Painted(self, viewport) ==
    FrameBuffer(
        [i \in DOMAIN ColorAttachments(self) |->
            AttachmentColor(ClearPlane(ColorPlane(self, i), viewport, 70))],
        DepthAttachment(self))

FrameBufferDrawUnchecked(self, geometry, viewport, params, resources, element_range) ==
    [result |-> Ok(DrawCallStatistics(RangeCount(geometry, element_range))),
     frame_buffer |-> IF RangeCount(geometry, element_range) > 0
                      THEN Painted(self, viewport) ELSE self]

\* GpuFrameBufferTrait::draw(&self, geometry, viewport, program, params,
\* resources, element_range): the result and the frame buffer afterwards.
FrameBufferDraw(self, geometry, viewport, params, resources, element_range) ==
    IF RangeExceeds(geometry, element_range)
    THEN [result |-> Err("element range"), frame_buffer |-> self]
    ELSE IF BindsDestroyed(resources)
    THEN [result |-> Err("resource"), frame_buffer |-> self]
    ELSE IF Incompatible(self, params)
    THEN [result |-> Err("pipeline state"), frame_buffer |-> self]
    ELSE [result |-> Ok(DrawCallStatistics(RangeCount(geometry, element_range))),
          frame_buffer |-> IF RangeCount(geometry, element_range) > 0
                           THEN Painted(self, viewport) ELSE self]

\* GpuFrameBufferTrait::draw_instances(&self, instance_count, ..): as draw,
\* with every instance in the one submission.
FrameBufferDrawInstances(self, instance_count, geometry, viewport, params, resources, element_range) ==
    LET one == FrameBufferDraw(self, geometry, viewport, params, resources, element_range)
    IN IF one.result.tag = "Err" THEN one
       ELSE [result |-> Ok(DrawCallStatistics(
                              instance_count * RangeCount(geometry, element_range))),
             frame_buffer |-> IF instance_count > 0 THEN one.frame_buffer ELSE self]

(***************************************************************************)
(* The inputs of SpecDraw                                                  *)
(***************************************************************************)

\* Geometry buffers hold 0 or MaxTriangles triangles.
MaxTriangles == 2

\* Up to MaxInstances instances are drawn at once.
MaxInstances == 2

GeometryBuffers == {GeometryBuffer(0), GeometryBuffer(MaxTriangles)}

\* Everything, the first triangle, and a range that ends one triangle beyond
\* the largest buffer.
ElementRanges ==
    {ElementRangeFull, ElementRangeSpecific(0, 1), ElementRangeSpecific(1, MaxTriangles)}

\* One group with a texture and a buffer, either of which may be destroyed.
BindGroups ==
    {<<ResourceBindGroup(<<ResourceBindingTexture(t), ResourceBindingBuffer(b)>>)>> :
        t \in BOOLEAN, b \in BOOLEAN}

(***************************************************************************)
(* Chunk::update step by step, under the RwLock of its SurfaceData         *)
(***************************************************************************)

\* RwLock::new: no writer (0), no readers.
RwLockNew == [writer |-> 0, readers |-> {}]

\* RwLock::write returns once there is neither a writer nor a reader.
RwLockCanWrite(lock) == lock.writer = 0 /\ lock.readers = {}

\* RwLock::read returns once there is no writer.
RwLockCanRead(lock) == lock.writer = 0

\* The steps of Chunk::update on a dirty chunk, in the order of the code: the
\* step that follows each position of the thread.
UpdateStep(pc) ==
    CASE pc = "idle" -> "write"
      [] pc = "write" -> "clear"
      [] pc = "clear" -> "vertex buffer"
      [] pc = "vertex buffer" -> "index buffer"
      [] pc = "index buffer" -> "normals and tangents"
      [] pc = "normals and tangents" -> "end"

\* The SurfaceData with its normals and tangents, once calculated.
Shaded(data, done) == [data |-> data, shaded |-> done]

\* What a step of Chunk::update makes of the SurfaceData.
Regenerating(step, chunk, surface) ==
    CASE step = "clear" -> Shaded(EmptySurfaceData, FALSE)
      [] step = "vertex buffer" ->
            Shaded([surface.data EXCEPT !.vertex_buffer = ChunkVertices(chunk)], FALSE)
      [] step = "index buffer" ->
            Shaded([surface.data EXCEPT !.triangles = ChunkTriangles(chunk)], FALSE)
      [] step = "normals and tangents" -> Shaded(surface.data, TRUE)
      [] OTHER -> surface

GuardDropsAfterClear(step) == step = "clear"

\* Whether the write guard `surface_data` goes out of scope with a step: it is
\* bound in the block of `if self.dirty.get()` and lives to the end of it.
GuardDrops(step) == step = "end"

\* The lock after thread t took a step of Chunk::update.
LockAfter(lock, t, step) ==
    IF step = "write" THEN [lock EXCEPT !.writer = t]
    ELSE IF GuardDrops(step) /\ lock.writer = t THEN [lock EXCEPT !.writer = 0]
    ELSE lock

\* The chunk after a step of Chunk::update.
ChunkAfter(chunk, step) ==
    IF step = "end" THEN [chunk EXCEPT !.dirty = FALSE] ELSE chunk

\* Whether a SurfaceData is whole for a chunk of these point counts.
Whole(surface, chunk) ==
    /\ Len(surface.data.vertex_buffer) = chunk.width_point_count * chunk.length_point_count
    /\ Len(surface.data.triangles) =
          2 * (chunk.width_point_count - 1) * (chunk.length_point_count - 1)
    /\ surface.shaded

(***************************************************************************)
(* The inputs of SpecLock                                                  *)
(***************************************************************************)

\* Heights are edited at most MaxEdits times.
MaxEdits == 2

\* Two threads own a terrain each, two more read.
WriterThreads == {1, 2}

ObserverThreads == {3, 4}

\* A terrain of one chunk, as TerrainBuilder::build made it.
LockedTerrain ==
    TerrainBuilderBuild([TerrainBuilderNew EXCEPT !.width = AsF32(MaxSide),
                                                  !.length = AsF32(1),
                                                  !.width_chunks = 1,
                                                  !.length_chunks = 1,
                                                  !.resolution = AsF32(1)],
                        BuildBase, <<>>, TRUE)

(***************************************************************************)
(* VisibilityBufferOptimizer                                               *)
(***************************************************************************)

\* Color::TRANSPARENT
Transparent == 0

\* PixelBuffer::new: no transfer requested.
PixelBufferNew == [request |-> None]

\* PixelBuffer::is_request_running
IsRequestRunning(pixel_buffer) == pixel_buffer.request # None

\* PixelBuffer::schedule_pixels_transfer(server, framebuffer,
\* color_buffer_index, rect): a request for the pixels the attachment holds
\* now, unless one is under way already; the server may refuse it.
SchedulePixelsTransfer(pixel_buffer, framebuffer, color_buffer_index, refused) ==
    IF IsRequestRunning(pixel_buffer) THEN Ok(pixel_buffer)
    ELSE IF refused THEN Err("transfer")
    ELSE Ok([request |-> Some([done |-> FALSE,
                               pixels |-> ColorPlane(framebuffer, color_buffer_index + 1)])])

\* The GPU finishes the transfer requested.
TransferDone(pixel_buffer) == [request |-> Some([pixel_buffer.request[1] EXCEPT !.done = TRUE])]

\* PixelBuffer::try_read: the pixels once the transfer is done, and nothing
\* while it is under way or when none was requested.
TryRead(pixel_buffer) ==
    IF IsRequestRunning(pixel_buffer) /\ pixel_buffer.request[1].done
    THEN [result |-> Some(pixel_buffer.request[1].pixels), pixel_buffer |-> PixelBufferNew]
    ELSE [result |-> None, pixel_buffer |-> pixel_buffer]

\* VisibilityBufferOptimizer::new, when the server made every resource: a
\* frame buffer of one color attachment and no depth attachment.
VisibilityBufferOptimizerNew(w_tiles, h_tiles) ==
    [framebuffer |-> FrameBuffer(<<AttachmentColor(Filled(EmptyPixel))>>, None),
     pixel_buffer |-> PixelBufferNew,
     w_tiles |-> w_tiles,
     h_tiles |-> h_tiles]

\* VisibilityBufferOptimizer::is_reading_from_gpu
IsReadingFromGpu(self) == IsRequestRunning(self.pixel_buffer)

\* VisibilityBufferOptimizer::read_visibility_mask
ReadVisibilityMask(self) ==
    LET read == TryRead(self.pixel_buffer)
    IN [result |-> read.result, optimizer |-> [self EXCEPT !.pixel_buffer = read.pixel_buffer]]

\* A call that optimize made of a collaborator.
Called(call, args) == [call |-> call, args |-> args]

\* What optimize returns: its result, the optimizer afterwards and the calls
\* it made in order.
Optimized(result, self, log) == [result |-> result, optimizer |-> self, log |-> log]

OptimizeSchedulesAnyway(self, visibility_buffer, unit_quad, written, refused) ==
    LET viewport == Rect(0, 0, self.w_tiles, self.h_tiles)
        cleared == FrameBufferClear(self.framebuffer, viewport, Some(Transparent), None, None)
        resources == <<ResourceBindGroup(<<ResourceBindingTexture(visibility_buffer),
                                           ResourceBindingBuffer(TRUE)>>)>>
        drawn == FrameBufferDraw(cleared, unit_quad, viewport, DrawParameters(FALSE),
                                 resources, ElementRangeFull)
        scheduled == SchedulePixelsTransfer(self.pixel_buffer, drawn.frame_buffer, 0, refused)
        clear == Called("clear", <<viewport, Some(Transparent), None, None>>)
        write == Called("write", written)
        draw == Called("draw", <<viewport, FALSE, ElementRangeFull, drawn.result>>)
        schedule == Called("schedule_pixels_transfer", 0)
    IN IF written.tag = "Err"
       THEN Optimized(written, [self EXCEPT !.framebuffer = cleared], <<clear, write>>)
       ELSE IF scheduled.tag = "Err"
       THEN Optimized(scheduled, [self EXCEPT !.framebuffer = drawn.frame_buffer],
                      <<clear, write, draw, schedule>>)
       ELSE Optimized(IF drawn.result.tag = "Err" THEN drawn.result ELSE Ok(<<>>),
                      [self EXCEPT !.framebuffer = drawn.frame_buffer,
                                   !.pixel_buffer = scheduled.value],
                      <<clear, write, draw, schedule>>)

\* VisibilityBufferOptimizer::optimize(&mut self, server, visibility_buffer,
\* unit_quad, tile_size, uniform_buffer_cache). visibility_buffer is whether
\* the texture still exists, written is what uniform_buffer_cache.write
\* returns, refused is whether the server refuses the transfer.
Optimize(self, visibility_buffer, unit_quad, written, refused) ==
    LET viewport == Rect(0, 0, self.w_tiles, self.h_tiles)
        cleared == FrameBufferClear(self.framebuffer, viewport, Some(Transparent), None, None)
        resources == <<ResourceBindGroup(<<ResourceBindingTexture(visibility_buffer),
                                           ResourceBindingBuffer(TRUE)>>)>>
        drawn == FrameBufferDraw(cleared, unit_quad, viewport, DrawParameters(FALSE),
                                 resources, ElementRangeFull)
        scheduled == SchedulePixelsTransfer(self.pixel_buffer, drawn.frame_buffer, 0, refused)
        clear == Called("clear", <<viewport, Some(Transparent), None, None>>)
        write == Called("write", written)
        draw == Called("draw", <<viewport, FALSE, ElementRangeFull, drawn.result>>)
        schedule == Called("schedule_pixels_transfer", 0)
    IN IF written.tag = "Err"
       THEN Optimized(written, [self EXCEPT !.framebuffer = cleared], <<clear, write>>)
       ELSE IF drawn.result.tag = "Err"
       THEN Optimized(drawn.result, [self EXCEPT !.framebuffer = drawn.frame_buffer],
                      <<clear, write, draw>>)
       ELSE IF scheduled.tag = "Err"
       THEN Optimized(scheduled, [self EXCEPT !.framebuffer = drawn.frame_buffer],
                      <<clear, write, draw, schedule>>)
       ELSE Optimized(Ok(<<>>),
                      [self EXCEPT !.framebuffer = drawn.frame_buffer,
                                   !.pixel_buffer = scheduled.value],
                      <<clear, write, draw, schedule>>)

(***************************************************************************)
(* The inputs of SpecOptimizer                                             *)
(***************************************************************************)

\* At most MaxOptimizerSteps calls are made on the optimizer.
MaxOptimizerSteps == 3

\* The optimizer has 1 or 2 tiles each way.
TileCounts == {1, 2}

\* The unit quad: two triangles.
UnitQuad == GeometryBuffer(2)

\* What uniform_buffer_cache.write may return.
Writes == {Ok("buffer"), Err("uniform buffer")}

(***************************************************************************)
(* Idle values: what a group of variables holds while another              *)
(* specification runs.                                                     *)
(***************************************************************************)

LayerIdle ==
    /\ layer_a = DefaultLayer
    /\ layer_b = DefaultLayer
    /\ data_key = 0
    /\ batch_ids = NONE

ProfileIdle == overflow_checks = FALSE

BuilderIdle == builder = TerrainBuilderNew /\ build_result = NONE

TerrainIdle ==
    /\ status = "idle"
    /\ terrains = <<NONE, NONE>>
    /\ arcs = <<>>
    /\ saved = NONE
    /\ last = [op |-> "none", t |-> 0, result |-> NONE]
    /\ steps = 0

FrameBufferIdle ==
    /\ frame_buffers = <<>>
    /\ fb_before = <<>>
    /\ fb_last = [op |-> "none"]
    /\ fb_steps = 0

NodeIdle ==
    /\ node = NodeDefault
    /\ copy = NONE
    /\ archive = VisitorNew
    /\ read_back = NONE
    /\ node_last = [op |-> "none", arg |-> NONE]
    /\ node_steps = 0

KindIdle == kind_id = 0 /\ kind_result = NONE

OptimizerIdle ==
    /\ optimizer = NONE
    /\ opt_last = [op |-> "none"]
    /\ opt_steps = 0

LockIdle ==
    /\ rw_lock = RwLockNew
    /\ shared = NONE
    /\ writers = <<>>
    /\ observers = <<>>
    /\ edits = 0

lockRest ==
    <<profileVars, kindVars, layerVars, builderVars, terrainVars, nodeVars,
      frameBufferVars, optimizerVars>>

LockRestIdle ==
    /\ ProfileIdle
    /\ KindIdle
    /\ LayerIdle
    /\ BuilderIdle
    /\ TerrainIdle
    /\ NodeIdle
    /\ FrameBufferIdle
    /\ OptimizerIdle

kindRest ==
    <<profileVars, layerVars, builderVars, terrainVars, nodeVars,
      frameBufferVars, lockVars, optimizerVars>>

KindRestIdle ==
    /\ ProfileIdle
    /\ LayerIdle
    /\ BuilderIdle
    /\ TerrainIdle
    /\ NodeIdle
    /\ FrameBufferIdle
    /\ LockIdle
    /\ OptimizerIdle

layerRest ==
    <<profileVars, kindVars, builderVars, terrainVars, nodeVars,
      frameBufferVars, lockVars, optimizerVars>>

LayerRestIdle ==
    /\ ProfileIdle
    /\ KindIdle
    /\ BuilderIdle
    /\ TerrainIdle
    /\ NodeIdle
    /\ FrameBufferIdle
    /\ LockIdle
    /\ OptimizerIdle

builderRest ==
    <<kindVars, layerVars, terrainVars, nodeVars, frameBufferVars, lockVars,
      optimizerVars>>

BuilderRestIdle ==
    /\ KindIdle
    /\ LayerIdle
    /\ TerrainIdle
    /\ NodeIdle
    /\ FrameBufferIdle
    /\ LockIdle
    /\ OptimizerIdle

terrainRest ==
    <<kindVars, layerVars, builderVars, nodeVars, frameBufferVars, lockVars,
      optimizerVars>>

TerrainRestIdle ==
    /\ KindIdle
    /\ LayerIdle
    /\ BuilderIdle
    /\ NodeIdle
    /\ FrameBufferIdle
    /\ LockIdle
    /\ OptimizerIdle

nodeRest ==
    <<profileVars, kindVars, layerVars, builderVars, terrainVars,
      frameBufferVars, lockVars, optimizerVars>>

NodeRestIdle ==
    /\ ProfileIdle
    /\ KindIdle
    /\ LayerIdle
    /\ BuilderIdle
    /\ TerrainIdle
    /\ FrameBufferIdle
    /\ LockIdle
    /\ OptimizerIdle

frameBufferRest ==
    <<profileVars, kindVars, layerVars, builderVars, terrainVars, nodeVars,
      lockVars, optimizerVars>>

FrameBufferRestIdle ==
    /\ ProfileIdle
    /\ KindIdle
    /\ LayerIdle
    /\ BuilderIdle
    /\ TerrainIdle
    /\ NodeIdle
    /\ LockIdle
    /\ OptimizerIdle

optimizerRest ==
    <<profileVars, kindVars, layerVars, builderVars, terrainVars, nodeVars,
      frameBufferVars, lockVars>>

OptimizerRestIdle ==
    /\ ProfileIdle
    /\ KindIdle
    /\ LayerIdle
    /\ BuilderIdle
    /\ TerrainIdle
    /\ NodeIdle
    /\ FrameBufferIdle
    /\ LockIdle

(***************************************************************************)
(* SpecKind: NodeKind::new and NodeKind::id over every u8                  *)
(***************************************************************************)

InitKind == kind_id \in 0..U8_MAX /\ kind_result = NONE /\ KindRestIdle

\* One call NodeKind::new(kind_id), followed by id() on an Ok result.
CallNodeKindNew ==
    /\ kind_result = NONE
    /\ LET r == NodeKindNew(kind_id)
       IN kind_result' = [tag |-> "Called",
                          new |-> r,
                          id |-> IF r.tag = "Ok" THEN NodeKindId(r.value) ELSE -1]
    /\ UNCHANGED kind_id
    /\ UNCHANGED kindRest

\* The caller goes on to the next id.
NextKindInput ==
    /\ kind_result # NONE
    /\ kind_id' \in 0..U8_MAX
    /\ kind_result' = NONE
    /\ UNCHANGED kindRest

NextKind == CallNodeKindNew \/ NextKindInput

SpecKind == InitKind /\ [][NextKind]_vars

\* C1: for every id in 0..5 NodeKind::new(id) is Ok and id() of the result is
\* id again; for every other u8 the result is an Err value (no other outcome).
C1_NewIdRoundTrip ==
    kind_result # NONE =>
        IF kind_id \in 0..5
        THEN /\ kind_result.new.tag = "Ok"
             /\ kind_result.new.value.tag \in KindTags
             /\ kind_result.id = kind_id
        ELSE kind_result.new.tag = "Err"

C1_Witness ==
    /\ kind_result # NONE
    /\ kind_id = 5
    /\ kind_result.new.tag = "Ok"
    /\ kind_result.id = 5

(***************************************************************************)
(* SpecLayer: Layer::batch_id over pairs of layers                         *)
(***************************************************************************)

InitLayer ==
    /\ layer_a \in Layers
    /\ layer_b \in Layers
    /\ data_key \in 0..MaxKey
    /\ batch_ids = NONE
    /\ LayerRestIdle

\* batch_id(data_key) on both layers.
CallBatchId ==
    /\ batch_ids = NONE
    /\ batch_ids' = [tag |-> "Called",
                     a |-> BatchId(layer_a, data_key),
                     b |-> BatchId(layer_b, data_key)]
    /\ UNCHANGED <<layer_a, layer_b, data_key>>
    /\ UNCHANGED layerRest

NextLayer == CallBatchId

SpecLayer == InitLayer /\ [][NextLayer]_vars

SameMaterial(a, b) ==
    /\ a.diffuse_texture = b.diffuse_texture
    /\ a.normal_texture = b.normal_texture
    /\ a.specular_texture = b.specular_texture
    /\ a.roughness_texture = b.roughness_texture
    /\ a.height_texture = b.height_texture

\* C4: two layers with the same diffuse, normal, specular, roughness and height
\* textures get the same batch id under the same key, whatever their masks.
C4_BatchIdMaskAgnostic ==
    (batch_ids # NONE /\ SameMaterial(layer_a, layer_b)) => batch_ids.a = batch_ids.b

C4_Witness ==
    /\ batch_ids # NONE
    /\ SameMaterial(layer_a, layer_b)
    /\ layer_a.diffuse_texture # None
    /\ layer_a.mask # layer_b.mask
    /\ layer_a.mask # None
    /\ batch_ids.a = batch_ids.b

\* C18: with a hash free of collisions, batch ids tell material configurations
\* apart: two layers that get the same batch id under the same key have the
\* same texture, or the same absence of one, in each of the five slots.
C18_BatchIdSeparates ==
    (batch_ids # NONE /\ batch_ids.a = batch_ids.b) =>
        \A slot \in {"diffuse_texture", "normal_texture", "specular_texture",
                     "roughness_texture", "height_texture"} :
            layer_a[slot] = layer_b[slot]

(***************************************************************************)
(* SpecTerrain: a terrain is built, edited, moved, updated, measured,      *)
(* saved, loaded and copied                                                *)
(***************************************************************************)

\* A terrain as TerrainBuilder::build leaves it in the graph.
InitTerrain ==
    /\ overflow_checks \in BOOLEAN
    /\ \E b \in TerrainBuilders :
        LET r == TerrainBuilderBuild(b, BuildBase, <<>>, overflow_checks)
        IN /\ status = IF r.panic THEN "panicked" ELSE "running"
           /\ terrains = <<r.terrain, NONE>>
           /\ arcs = r.surfaces
           /\ last = [op |-> "build", t |-> BuiltSlot, result |-> b]
    /\ saved = NONE
    /\ steps = 0
    /\ TerrainRestIdle

Running == status = "running" /\ steps < MaxSteps

Did(op, t, result) ==
    /\ last' = [op |-> op, t |-> t, result |-> result]
    /\ steps' = steps + 1
    /\ UNCHANGED overflow_checks
    /\ UNCHANGED terrainRest

\* Terrain::update
Update ==
    /\ Running
    /\ \E t \in TerrainSlots :
        /\ terrains[t] # NONE
        /\ LET r == TerrainUpdate(terrains[t], arcs)
           IN /\ status' = IF r.panic THEN "panicked" ELSE "running"
              /\ terrains' = [terrains EXCEPT ![t] = r.terrain]
              /\ arcs' = r.surfaces
        /\ Did("update", t, NONE)
    /\ UNCHANGED saved

\* Terrain::bounding_box
CallBoundingBox ==
    /\ Running
    /\ \E t \in TerrainSlots :
        /\ terrains[t] # NONE
        /\ LET r == BoundingBox(terrains[t])
           IN /\ terrains' = [terrains EXCEPT ![t] = r.terrain]
              /\ Did("bounding_box", t, r.box)
    /\ UNCHANGED <<status, arcs, saved>>

\* A brush in ChangeHeight mode is applied.
ChangeHeights ==
    /\ Running
    /\ \E t \in TerrainSlots :
        /\ terrains[t] # NONE
        /\ \E brush \in Brushes(terrains[t]) :
            /\ terrains' = [terrains EXCEPT ![t] = ApplyBrush(terrains[t], brush)]
            /\ Did("brush", t, brush)
    /\ UNCHANGED <<status, arcs, saved>>

\* The graph moves the terrain node.
Move ==
    /\ Running
    /\ \E t \in TerrainSlots :
        /\ terrains[t] # NONE
        /\ \E p \in Positions :
            /\ p # GlobalPosition(terrains[t])
            /\ terrains' = [terrains EXCEPT ![t] = SetGlobalPosition(terrains[t], p)]
            /\ Did("move", t, p)
    /\ UNCHANGED <<status, arcs, saved>>

\* The built terrain is written through Visit.
Save ==
    /\ Running
    /\ terrains[BuiltSlot] # NONE
    /\ saved' = TerrainVisitWrite(terrains[BuiltSlot])
    /\ Did("save", BuiltSlot, NONE)
    /\ UNCHANGED <<status, terrains, arcs>>

\* The saved state is read through Visit into a Terrain::default().
Load ==
    /\ Running
    /\ saved # NONE
    /\ LET r == TerrainVisitRead(saved, arcs)
       IN /\ terrains' = [terrains EXCEPT ![CopySlot] = r.terrain]
          /\ arcs' = r.surfaces
    /\ Did("load", CopySlot, NONE)
    /\ UNCHANGED <<status, saved>>

\* Terrain::raw_copy
CallRawCopy ==
    /\ Running
    /\ terrains[BuiltSlot] # NONE
    /\ terrains' = [terrains EXCEPT ![CopySlot] = RawCopy(terrains[BuiltSlot])]
    /\ Did("raw_copy", CopySlot, NONE)
    /\ UNCHANGED <<status, arcs, saved>>

NextTerrain ==
    \/ Update
    \/ CallBoundingBox
    \/ ChangeHeights
    \/ Move
    \/ Save
    \/ Load
    \/ CallRawCopy

SpecTerrain == InitTerrain /\ [][NextTerrain]_vars


\* The chunks of the terrain in slot t.
ChunksOf(t) == terrains[t].chunks

\* What regeneration makes of a chunk's heightmap.
Regenerated(chunk) ==
    [vertex_buffer |-> ChunkVertices(chunk), triangles |-> ChunkTriangles(chunk)]

\* C2: Chunk::update is idempotent. Right after an update that returned (the
\* one Terrain::update runs on every chunk, also at the end of build), every
\* chunk of the terrain has dirty = false and a second update changes neither
\* the chunks nor any vertex or triangle buffer; and in every state, update on
\* a chunk whose dirty flag is false changes nothing.
C2_UpdateIdempotent ==
    /\ (status = "running" /\ last.op \in {"update", "build"}) =>
          LET again == TerrainUpdate(terrains[last.t], arcs)
          IN /\ \A i \in 1..Len(ChunksOf(last.t)) : ~ChunksOf(last.t)[i].dirty
             /\ ~again.panic
             /\ again.terrain = terrains[last.t]
             /\ again.surfaces = arcs
    /\ \A t \in TerrainSlots :
          terrains[t] # NONE =>
              \A i \in 1..Len(ChunksOf(t)) :
                  ~ChunksOf(t)[i].dirty =>
                      ChunkUpdate(ChunksOf(t)[i], arcs) =
                          [panic |-> FALSE, chunk |-> ChunksOf(t)[i], surfaces |-> arcs]

\* An update has just regenerated a chunk whose heights a brush had changed.
C2_Witness ==
    /\ status = "running"
    /\ last.op = "update"
    /\ \E i \in 1..Len(ChunksOf(last.t)) :
          LET chunk == ChunksOf(last.t)[i]
          IN /\ chunk.heightmap[1] # 0
             /\ ~chunk.dirty
             /\ ChunkData(chunk, arcs) = Regenerated(chunk)

\* The layout that C14 states of a chunk's surface data, from the chunk's
\* point counts, place and heights.
GridLayout(chunk, data) ==
    LET W == chunk.width_point_count
        L == chunk.length_point_count
    IN /\ Len(data.vertex_buffer) = W * L
       /\ \A z \in 0..(L - 1) : \A x \in 0..(W - 1) :
            data.vertex_buffer[z * W + x + 1].position =
                Vector3(F32Add(chunk.position[1],
                               F32Mul(F32(x, W - 1), chunk.width)),
                        F32Add(chunk.position[2], AsF32(chunk.heightmap[z * W + x + 1])),
                        F32Add(chunk.position[3],
                               F32Mul(F32(z, L - 1), chunk.length)))
       /\ Len(data.triangles) = 2 * (W - 1) * (L - 1)
       /\ \A z \in 0..(L - 2) : \A x \in 0..(W - 2) :
            LET cell == z * (W - 1) + x
                i0 == z * W + x
                i1 == (z + 1) * W + x
                i2 == (z + 1) * W + x + 1
                i3 == z * W + x + 1
            IN /\ data.triangles[2 * cell + 1] = <<i0, i1, i2>>
               /\ data.triangles[2 * cell + 2] = <<i2, i3, i0>>
       /\ \A i \in 1..Len(data.triangles) : \A k \in 1..3 :
            data.triangles[i][k] >= 0 /\ data.triangles[i][k] < W * L

\* C14: after Chunk::update returned on a dirty chunk of W x L points, the
\* chunk's surface data holds exactly W * L vertices in row-major order
\* (vertex z * W + x is grid point (x, z)) and exactly 2 * (W - 1) * (L - 1)
\* triangles, two per cell in row-major order, (i0, i1, i2) and (i2, i3, i0),
\* every index below W * L, and nothing of the data it held before; this
\* holds of the update that build runs and of every later one.
C14_GridLayout ==
    /\ [](status = "running" /\ last.op = "build" =>
            \A i \in 1..Len(ChunksOf(BuiltSlot)) :
                GridLayout(ChunksOf(BuiltSlot)[i], ChunkData(ChunksOf(BuiltSlot)[i], arcs)))
    /\ [][status' = "running" /\ last'.op = "update" /\ steps' # steps =>
            \A i \in 1..Len(ChunksOf(last'.t)) :
                ChunksOf(last'.t)[i].dirty =>
                    GridLayout(terrains'[last'.t].chunks[i],
                               ChunkData(terrains'[last'.t].chunks[i], arcs'))]_vars

\* An update has just regenerated a chunk of more than one cell each way whose
\* heights a brush had raised in one place and lowered in another.
C14_Witness ==
    /\ status = "running"
    /\ last.op = "update"
    /\ \E i \in 1..Len(ChunksOf(last.t)) :
          LET chunk == ChunksOf(last.t)[i]
          IN /\ chunk.width_point_count > 2
             /\ chunk.length_point_count > 2
             /\ \E j, k \in 1..Len(chunk.heightmap) :
                    chunk.heightmap[j] > 0 /\ chunk.heightmap[k] < 0
             /\ ~chunk.dirty
             /\ GridLayout(chunk, ChunkData(chunk, arcs))

\* The height samples of a terrain.
Samples(terrain) ==
    UNION {{terrain.chunks[i].heightmap[j] : j \in 1..Len(terrain.chunks[i].heightmap)} :
              i \in 1..Len(terrain.chunks)}

MaxSample(terrain) ==
    CHOOSE h \in Samples(terrain) : \A g \in Samples(terrain) : g <= h

\* C3: whatever was done to the terrain before, the box bounding_box() returns
\* has max Y = global_position().y + the largest height sample of the chunks.
C3_BoundingBoxMaxY ==
    (status = "running" /\ last.op = "bounding_box" /\ Samples(terrains[last.t]) # {}) =>
        last.result.max[2] =
            F32Add(GlobalPosition(terrains[last.t])[2], AsF32(MaxSample(terrains[last.t])))

\* C19: bounding_box() reflects the current global position: whatever was done
\* to the terrain before, a change of its position included, the box returned
\* has min = global_position() and max = global_position() + (width, largest
\* height sample, length).
C19_BoxFollowsPosition ==
    (status = "running" /\ last.op = "bounding_box" /\ Samples(terrains[last.t]) # {}) =>
        LET terrain == terrains[last.t]
        IN /\ last.result.min = GlobalPosition(terrain)
           /\ last.result.max =
                 Vector3Add(GlobalPosition(terrain),
                            Vector3(terrain.width, AsF32(MaxSample(terrain)), terrain.length))

\* The corners of a chunk's surface, translated by the terrain's global
\* position.
SurfacePoints(terrain, surfaces) ==
    UNION {{Vector3Add(GlobalPosition(terrain),
                       ChunkData(terrain.chunks[i], surfaces).vertex_buffer[j].position) :
               j \in 1..Len(ChunkData(terrain.chunks[i], surfaces).vertex_buffer)} :
           i \in 1..Len(terrain.chunks)}

\* C20: the box bounding_box() returns encloses the surface: min <= max in
\* every component, and every vertex generated for the chunks, translated by
\* the global position, lies between min and max; with negative heights and
\* with no chunks as well.
C20_BoxEnclosesSurface ==
    (status = "running" /\ last.op = "bounding_box") =>
        LET terrain == terrains[last.t]
            box == last.result
        IN /\ \A k \in 1..3 : F32Le(box.min[k], box.max[k])
           /\ (\A i \in 1..Len(terrain.chunks) : ~terrain.chunks[i].dirty) =>
                 \A p \in SurfacePoints(terrain, arcs) :
                    \A k \in 1..3 : F32Le(box.min[k], p[k]) /\ F32Le(p[k], box.max[k])

\* What the readers of a terrain see: the surface data of each of its chunks.
SeenThrough(terrain, surfaces) ==
    [i \in 1..Len(terrain.chunks) |-> ChunkData(terrain.chunks[i], surfaces)]

\* C21: raw_copy yields an independent terrain: the copy starts with its
\* bounding box cache marked dirty, and an update of one terrain, which
\* clears and regenerates the surface data of its dirty chunks, never changes
\* the surface data that the readers of the other terrain see.
C21_RawCopyIndependent ==
    /\ [](status = "running" /\ last.op = "raw_copy" =>
            terrains[CopySlot].bounding_box_dirty)
    /\ [][status' = "running" /\ last'.op = "update" /\ steps' # steps =>
            \A t \in TerrainSlots \ {last'.t} :
                terrains[t] # NONE =>
                    SeenThrough(terrains'[t], arcs') = SeenThrough(terrains[t], arcs)]_vars

\* C8: the derived fields are recomputed after a load. Right after a terrain
\* was read back, its first update gives every chunk the surface data of its
\* loaded heightmap, and its first bounding_box() computes the box from the
\* loaded state instead of returning a cached one.
C8_RecomputedAfterLoad ==
    (status = "running" /\ last.op = "load") =>
        LET loaded == terrains[last.t]
            updated == TerrainUpdate(loaded, arcs)
        IN /\ ~updated.panic
           /\ \A i \in 1..Len(loaded.chunks) :
                 ChunkData(loaded.chunks[i], updated.surfaces) = Regenerated(loaded.chunks[i])
           /\ loaded.bounding_box_dirty
           /\ BoundingBox(loaded).box = ComputeBoundingBox(loaded)

(***************************************************************************)
(* SpecBuilder: a TerrainBuilder is configured and built                   *)
(***************************************************************************)

InitBuilder ==
    /\ overflow_checks \in BOOLEAN
    /\ builder = TerrainBuilderNew
    /\ build_result = NONE
    /\ BuilderRestIdle

Configuring == build_result = NONE

\* TerrainBuilder::with_width
WithWidth ==
    /\ Configuring
    /\ \E width \in BuilderSizes : builder' = [builder EXCEPT !.width = AsF32(width)]
    /\ UNCHANGED <<overflow_checks, build_result, builderRest>>

\* TerrainBuilder::with_length
WithLength ==
    /\ Configuring
    /\ \E length \in BuilderSizes : builder' = [builder EXCEPT !.length = AsF32(length)]
    /\ UNCHANGED <<overflow_checks, build_result, builderRest>>

\* TerrainBuilder::with_mask_resolution
WithMaskResolution ==
    /\ Configuring
    /\ \E resolution \in BuilderResolutions :
          builder' = [builder EXCEPT !.mask_resolution = resolution]
    /\ UNCHANGED <<overflow_checks, build_result, builderRest>>

\* TerrainBuilder::with_width_chunks
WithWidthChunks ==
    /\ Configuring
    /\ \E count \in 0..MaxChunks : builder' = [builder EXCEPT !.width_chunks = count]
    /\ UNCHANGED <<overflow_checks, build_result, builderRest>>

\* TerrainBuilder::with_length_chunks
WithLengthChunks ==
    /\ Configuring
    /\ \E count \in 0..MaxChunks : builder' = [builder EXCEPT !.length_chunks = count]
    /\ UNCHANGED <<overflow_checks, build_result, builderRest>>

\* TerrainBuilder::with_resolution
WithResolution ==
    /\ Configuring
    /\ \E resolution \in BuilderResolutions :
          builder' = [builder EXCEPT !.resolution = resolution]
    /\ UNCHANGED <<overflow_checks, build_result, builderRest>>

\* TerrainBuilder::with_layers
WithLayers ==
    /\ Configuring
    /\ \E count \in 0..MaxLayers :
          builder' = [builder EXCEPT !.layers = [i \in 1..count |-> DefaultLayerDefinition]]
    /\ UNCHANGED <<overflow_checks, build_result, builderRest>>

\* TerrainBuilder::build, for the configurations whose grids have at most
\* MaxPoints points a side.
BuildConfigured ==
    /\ Configuring
    /\ LET dims == BuilderDims(builder, overflow_checks)
       IN /\ dims.panic \/ (dims.chunk_width_points <= MaxPoints
                            /\ dims.chunk_length_points <= MaxPoints)
          /\ LET r == TerrainBuilderBuild(builder, BuildBase, <<>>, overflow_checks)
             IN build_result' = [tag |-> IF r.panic THEN "Panic" ELSE "Ok",
                                 terrain |-> r.terrain,
                                 surfaces |-> r.surfaces]
    /\ UNCHANGED <<overflow_checks, builder, builderRest>>

NextBuilder ==
    \/ WithWidth
    \/ WithLength
    \/ WithMaskResolution
    \/ WithWidthChunks
    \/ WithLengthChunks
    \/ WithResolution
    \/ WithLayers
    \/ BuildConfigured

SpecBuilder == InitBuilder /\ [][NextBuilder]_vars

Even(n) == n % 2 = 0

\* C5: a built terrain has exactly width_chunks * length_chunks chunks, each
\* with even point counts and a heightmap of width_point_count *
\* length_point_count samples; the point counts build derives from a
\* configuration are even; and the defaults (64, 64, 2, 2, 8.0) give chunks
\* 32.0 wide and long with 256 points a side.
C5_BuiltChunks ==
    LET dims == BuilderDims(builder, overflow_checks)
    IN /\ ~dims.panic => Even(dims.chunk_width_points) /\ Even(dims.chunk_length_points)
       /\ builder = TerrainBuilderNew =>
             /\ ~dims.panic
             /\ dims.chunk_width = AsF32(32)
             /\ dims.chunk_length = AsF32(32)
             /\ dims.chunk_width_points = 256
             /\ dims.chunk_length_points = 256
       /\ (build_result # NONE /\ build_result.tag = "Ok") =>
             LET chunks == build_result.terrain.chunks
             IN /\ Len(chunks) = builder.width_chunks * builder.length_chunks
                /\ \A i \in 1..Len(chunks) :
                      /\ Even(chunks[i].width_point_count)
                      /\ Even(chunks[i].length_point_count)
                      /\ chunks[i].width_point_count = dims.chunk_width_points
                      /\ chunks[i].length_point_count = dims.chunk_length_points
                      /\ Len(chunks[i].heightmap) =
                             chunks[i].width_point_count * chunks[i].length_point_count

\* A 2 x 2 terrain whose chunks got 4 points a side from an odd 3.
C5_Witness ==
    /\ build_result # NONE
    /\ build_result.tag = "Ok"
    /\ Len(build_result.terrain.chunks) = 4
    /\ F32ToU32(F32Mul(F32Div(builder.width, AsF32(builder.width_chunks)),
                       builder.resolution)) = 3
    /\ build_result.terrain.chunks[4].width_point_count = 4
    /\ Len(build_result.terrain.chunks[4].heightmap) =
           4 * build_result.terrain.chunks[4].length_point_count

\* C15: TerrainBuilder::build, and the Terrain::update it runs, return for
\* every configuration, zero point counts and zero chunk counts included:
\* no build ends in a panic.
C15_BuildCompletes == build_result # NONE => build_result.tag = "Ok"

(***************************************************************************)
(* SpecNode: a node is made, changed, copied, written and read back        *)
(***************************************************************************)

InitNode ==
    /\ node \in {NodeNew(kind) : kind \in NodeKinds}
    /\ copy = NONE
    /\ archive = VisitorNew
    /\ read_back = NONE
    /\ node_last = [op |-> "new", arg |-> NONE]
    /\ node_steps = 0
    /\ NodeRestIdle

NodeRunning == node_steps < MaxNodeSteps

NodeDid(op, arg) ==
    /\ node_last' = [op |-> op, arg |-> arg]
    /\ node_steps' = node_steps + 1
    /\ UNCHANGED nodeRest

Changes(op, changed) ==
    /\ NodeRunning
    /\ node' = changed
    /\ NodeDid(op, NONE)
    /\ UNCHANGED <<copy, archive, read_back>>

CallSetOriginalHandle ==
    \E h \in Handles : Changes("set_original_handle", SetOriginalHandle(node, h))

CallSetResource ==
    \E r \in Resources : Changes("set_resource", SetResource(node, r))

CallGetLocalTransformMut ==
    \E t \in Transforms : Changes("get_local_transform_mut", WriteLocalTransform(node, t))

CallGetKindMut ==
    \E p \in Payloads : Changes("get_kind_mut", WriteKind(node, p))

CallSetVisibility ==
    \E v \in BOOLEAN : Changes("set_visibility", SetVisibility(node, v))

CallSetName ==
    \E n \in Names : Changes("set_name", SetName(node, n))

CallSetInvBindPoseTransform ==
    \E t \in Transforms :
        Changes("set_inv_bind_pose_transform", SetInvBindPoseTransform(node, t))

\* The crate marks the node as the root of an instance of its resource, or not.
MarkResourceInstance ==
    \E flag \in BOOLEAN :
        Changes("mark_resource_instance", WriteIsResourceInstance(node, flag))

\* The graph links the node under a parent and gives it children.
Link ==
    \E p \in Handles, cs \in ChildLists :
        Changes("link", LinkNode(node, p, cs))

\* The graph's hierarchy update writes the derived fields.
HierarchyUpdate ==
    \E t \in Transforms, v \in BOOLEAN :
        Changes("update_hierarchy", UpdateHierarchy(node, t, v))

\* Node::make_copy
CallMakeCopy ==
    /\ NodeRunning
    /\ \E h \in Handles :
        /\ copy' = MakeCopy(node, h)
        /\ NodeDid("make_copy", h)
    /\ UNCHANGED <<node, archive, read_back>>

\* node.visit(name, visitor) with a writing visitor.
VisitWrite ==
    /\ NodeRunning
    /\ LET r == NodeVisit(node, VisitorNew)
       IN /\ node' = r.node
          /\ archive' = r.visitor
          /\ NodeDid("visit_write", r.result)
    /\ UNCHANGED <<copy, read_back>>

\* Node::default().visit(name, visitor) with a visitor reading what was
\* written.
VisitRead ==
    /\ NodeRunning
    /\ node_last.op = "visit_write"
    /\ LET r == NodeVisit(NodeDefault, VisitorLoad(archive))
       IN /\ read_back' = r.node
          /\ archive' = r.visitor
          /\ NodeDid("visit_read", r.result)
    /\ UNCHANGED <<node, copy>>

\* node.visit(name, visitor) with a visitor reading what was written, where
\* the kind id stored is none of 0..5.
VisitReadInvalid ==
    /\ NodeRunning
    /\ node_last.op = "visit_write"
    /\ \E id \in {6, U8_MAX} :
        LET r == NodeVisit(node, [VisitorLoad(archive) EXCEPT !.fields["KindId"] = id])
        IN /\ node' = r.node
           /\ archive' = r.visitor
           /\ NodeDid("visit_read_invalid", [result |-> r.result, before |-> node])
    /\ UNCHANGED <<copy, read_back>>

NextNode ==
    \/ CallSetOriginalHandle
    \/ CallSetResource
    \/ CallGetLocalTransformMut
    \/ CallGetKindMut
    \/ CallSetVisibility
    \/ CallSetName
    \/ CallSetInvBindPoseTransform
    \/ MarkResourceInstance
    \/ Link
    \/ HierarchyUpdate
    \/ CallMakeCopy
    \/ VisitWrite
    \/ VisitRead
    \/ VisitReadInvalid

SpecNode == InitNode /\ [][NextNode]_vars

\* C6: make_copy(original) returns a node with the source's kind, name, local
\* transform, visibility, resource link and is_resource_instance, with parent
\* NONE, no children and original set to the argument, and leaves the source
\* as it was.
C6_MakeCopy ==
    /\ [](node_last.op = "make_copy" =>
          /\ copy.kind = node.kind
          /\ copy.name = node.name
          /\ copy.local_transform = node.local_transform
          /\ copy.visibility = node.visibility
          /\ copy.resource = node.resource
          /\ copy.is_resource_instance = node.is_resource_instance
          /\ copy.parent = HandleNONE
          /\ copy.children = <<>>
          /\ copy.original = node_last.arg)
    /\ [][node_last'.op = "make_copy" /\ node_steps' # node_steps => node' = node]_vars

\* A linked, named node was copied under a handle that is not its own original.
C6_Witness ==
    /\ node_last.op = "make_copy"
    /\ node.parent # HandleNONE
    /\ node.children # <<>>
    /\ node.name # ""
    /\ copy.original # node.original
    /\ copy.name = node.name

\* C7: a node written with Visit and read back into a fresh node has the same
\* kind tag (and variant contents), name, local transform, visibility, parent,
\* children in order and resource link; the children are written as the list
\* of their handles and nothing more.
C7_VisitRoundTrip ==
    /\ node_last.op = "visit_write" =>
          /\ node_last.arg = "Ok"
          /\ archive.depth = 0
          /\ archive.fields["Children"] = node.children
    /\ node_last.op = "visit_read" =>
          /\ node_last.arg = "Ok"
          /\ read_back.kind = node.kind
          /\ read_back.name = node.name
          /\ read_back.local_transform = node.local_transform
          /\ read_back.visibility = node.visibility
          /\ read_back.parent = node.parent
          /\ read_back.children = node.children
          /\ read_back.resource = node.resource

\* A camera with a parent, two children and a changed variant was read back.
C7_Witness ==
    /\ node_last.op = "visit_read"
    /\ node.kind.tag = "Camera"
    /\ node.kind.payload # DefaultPayload
    /\ node.parent # HandleNONE
    /\ Len(node.children) = 2
    /\ read_back.kind = node.kind
    /\ read_back.children = node.children

\* C13: global_transform and global_visibility are changed by the hierarchy
\* update alone: no operation of Node's own interface changes them;
\* Node::new starts them at the identity and true, make_copy copies them, and
\* set_visibility changes the visibility and nothing else.
C13_GlobalsOnlyByHierarchy ==
    /\ [](node_last.op = "new" =>
            node.global_transform = Identity /\ node.global_visibility)
    /\ [](node_last.op = "make_copy" =>
            /\ copy.global_transform = node.global_transform
            /\ copy.global_visibility = node.global_visibility)
    /\ [][(\/ node'.global_transform # node.global_transform
           \/ node'.global_visibility # node.global_visibility)
          => node_last'.op = "update_hierarchy"]_vars
    /\ [][node_last'.op = "set_visibility" /\ node_steps' # node_steps
          => node' = [node EXCEPT !.visibility = node'.visibility]]_vars

\* The visibility was set to the opposite of the global visibility that an
\* earlier hierarchy update had computed.
C13_Witness ==
    /\ node_last.op = "set_visibility"
    /\ node.visibility # node.global_visibility
    /\ ~node.global_visibility
    /\ node.global_transform # Identity

\* C16: when Node::visit reads a kind id that is none of 0..5, it returns an
\* error, the node keeps the kind, name, transform, visibility, parent and
\* children it had, and the region that the visit entered has been left again.
C16_InvalidKindOnRead ==
    node_last.op = "visit_read_invalid" =>
        /\ node_last.arg.result = "Err"
        /\ node = node_last.arg.before
        /\ archive.depth = 0

(***************************************************************************)
(* SpecFrameBuffer: two frame buffers are cleared and the first is blitted *)
(* to the second                                                           *)
(***************************************************************************)

InitFrameBuffer ==
    /\ \E k1 \in DepthKinds, k2 \in DepthKinds :
          frame_buffers = <<DrawnFrameBuffer(k1), EmptyFrameBuffer(k2)>>
    /\ fb_before = frame_buffers
    /\ fb_last = [op |-> "new"]
    /\ fb_steps = 0
    /\ FrameBufferRestIdle

FrameBufferDid(call) ==
    /\ fb_steps < MaxFrameBufferSteps
    /\ fb_before' = frame_buffers
    /\ fb_last' = call
    /\ fb_steps' = fb_steps + 1
    /\ UNCHANGED frameBufferRest

\* frame_buffers[self].clear(viewport, color, depth, stencil)
Clear ==
    \E self \in DOMAIN frame_buffers, viewport \in Viewports,
       color \in ClearColors, depth \in ClearDepths, stencil \in ClearStencils :
        /\ frame_buffers' =
              [frame_buffers EXCEPT
                  ![self] = FrameBufferClear(@, viewport, color, depth, stencil)]
        /\ FrameBufferDid([op |-> "clear", self |-> self, viewport |-> viewport,
                           color |-> color, depth |-> depth, stencil |-> stencil])

\* frame_buffers[1].blit_to(&frame_buffers[2], ..)
BlitTo ==
    \E r \in BlitRegions, copy_color \in BOOLEAN, copy_depth \in BOOLEAN,
       copy_stencil \in BOOLEAN :
        /\ frame_buffers' =
              [frame_buffers EXCEPT
                  ![2] = FrameBufferBlitTo(frame_buffers[1], @, r,
                                           copy_color, copy_depth, copy_stencil)]
        /\ FrameBufferDid([op |-> "blit_to", self |-> 1, dest |-> 2, region |-> r,
                           copy_color |-> copy_color, copy_depth |-> copy_depth,
                           copy_stencil |-> copy_stencil])

NextFrameBuffer == Clear \/ BlitTo

SpecFrameBuffer == InitFrameBuffer /\ [][NextFrameBuffer]_vars

\* A plane is what it was outside the rectangle and holds the value inside.
ClearedTo(plane, before, viewport, value) ==
    \A p \in Pixels : plane[p] = IF InRect(p, viewport) THEN value ELSE before[p]

\* C9: clear changes only the channels whose argument is present: a color
\* clears every color attachment, a depth clears depth, a stencil clears
\* stencil, each inside the viewport only; with no argument present nothing
\* changes.  The other frame buffer is left alone.
C9_ClearOnlyPresentChannels ==
    fb_last.op = "clear" =>
        LET now == frame_buffers[fb_last.self]
            was == fb_before[fb_last.self]
        IN /\ \A i \in DOMAIN ColorAttachments(was) :
                 IF fb_last.color = None
                 THEN ColorPlane(now, i) = ColorPlane(was, i)
                 ELSE ClearedTo(ColorPlane(now, i), ColorPlane(was, i),
                                fb_last.viewport, fb_last.color[1])
           /\ IF fb_last.depth = None \/ ~HasDepth(was)
              THEN DepthPlane(now) = DepthPlane(was)
              ELSE ClearedTo(DepthPlane(now), DepthPlane(was),
                             fb_last.viewport, fb_last.depth[1])
           /\ IF fb_last.stencil = None \/ ~HasStencil(was)
              THEN StencilPlane(now) = StencilPlane(was)
              ELSE ClearedTo(StencilPlane(now), StencilPlane(was),
                             fb_last.viewport, fb_last.stencil[1])
           /\ DOMAIN ColorAttachments(now) = DOMAIN ColorAttachments(was)
           /\ HasDepth(now) = HasDepth(was) /\ HasStencil(now) = HasStencil(was)
           /\ (fb_last.color = None /\ fb_last.depth = None /\ fb_last.stencil = None)
                 => frame_buffers = fb_before
           /\ \A other \in DOMAIN frame_buffers \ {fb_last.self} :
                 frame_buffers[other] = fb_before[other]

\* A drawn-to frame buffer with depth and stencil had only its depth cleared,
\* in a part of it.
C9_Witness ==
    /\ fb_last.op = "clear"
    /\ fb_last.color = None /\ fb_last.depth # None /\ fb_last.stencil = None
    /\ HasStencil(fb_before[fb_last.self])
    /\ DepthPlane(frame_buffers[fb_last.self]) # DepthPlane(fb_before[fb_last.self])
    /\ \E p \in Pixels :
          DepthPlane(frame_buffers[fb_last.self])[p] = DepthPlane(fb_before[fb_last.self])[p]
    /\ StencilPlane(fb_before[fb_last.self]) # Filled(EmptyPixel)

\* A plane is what it was, or, if it was to be pasted, holds the source
\* under the region and what it was elsewhere.
PastedIf(copied, plane, before, source, r) ==
    \A p \in Pixels :
        plane[p] = IF /\ copied
                      /\ InBox(p, r.dst_x0, r.dst_y0, r.dst_x1, r.dst_y1)
                      /\ SourcePixel(p, r) \in Pixels
                   THEN source[SourcePixel(p, r)]
                   ELSE before[p]

\* C10: blit_to transfers color, depth and stencil each only when its own
\* flag is true, whatever the other two flags are; with all three false the
\* destination is unchanged; the source is unchanged.
C10_BlitFlagsGate ==
    fb_last.op = "blit_to" =>
        LET src == fb_before[fb_last.self]
            was == fb_before[fb_last.dest]
            now == frame_buffers[fb_last.dest]
        IN /\ \A i \in DOMAIN ColorAttachments(was) :
                 PastedIf(fb_last.copy_color, ColorPlane(now, i), ColorPlane(was, i),
                          ColorPlane(src, 1), fb_last.region)
           /\ PastedIf(fb_last.copy_depth /\ HasDepth(src) /\ HasDepth(was),
                       DepthPlane(now), DepthPlane(was), DepthPlane(src), fb_last.region)
           /\ PastedIf(fb_last.copy_stencil /\ HasStencil(src) /\ HasStencil(was),
                       StencilPlane(now), StencilPlane(was), StencilPlane(src),
                       fb_last.region)
           /\ DOMAIN ColorAttachments(now) = DOMAIN ColorAttachments(was)
           /\ HasDepth(now) = HasDepth(was) /\ HasStencil(now) = HasStencil(was)
           /\ (~fb_last.copy_color /\ ~fb_last.copy_depth /\ ~fb_last.copy_stencil)
                 => now = was
           /\ frame_buffers[fb_last.self] = src

\* Between two frame buffers with depth and stencil, only the stencil was
\* blitted, resampled, and the destination's stencil changed while its color
\* and depth did not.
C10_Witness ==
    /\ fb_last.op = "blit_to"
    /\ ~fb_last.copy_color /\ ~fb_last.copy_depth /\ fb_last.copy_stencil
    /\ HasStencil(fb_before[1]) /\ HasStencil(fb_before[2])
    /\ fb_last.region.src_x1 - fb_last.region.src_x0
          # fb_last.region.dst_x1 - fb_last.region.dst_x0
    /\ StencilPlane(frame_buffers[2]) # StencilPlane(fb_before[2])
    /\ DepthPlane(frame_buffers[2]) = DepthPlane(fb_before[2])
    /\ DepthPlane(fb_before[1]) # DepthPlane(fb_before[2])

(***************************************************************************)
(* SpecDraw: geometry is drawn to the first frame buffer                   *)
(***************************************************************************)

\* frame_buffers[1].draw(..)
Draw ==
    \E geometry \in GeometryBuffers, element_range \in ElementRanges,
       resources \in BindGroups, depth_test \in BOOLEAN :
        LET r == FrameBufferDraw(frame_buffers[1], geometry, Rect(0, 0, 2, 2),
                                 DrawParameters(depth_test), resources, element_range)
        IN /\ frame_buffers' = [frame_buffers EXCEPT ![1] = r.frame_buffer]
           /\ FrameBufferDid([op |-> "draw", self |-> 1, instance_count |-> 1,
                              geometry |-> geometry, element_range |-> element_range,
                              resources |-> resources, depth_test |-> depth_test,
                              result |-> r.result])

\* frame_buffers[1].draw_instances(instance_count, ..)
DrawInstances ==
    \E instance_count \in {0, MaxInstances},
       geometry \in GeometryBuffers, element_range \in ElementRanges,
       resources \in BindGroups, depth_test \in BOOLEAN :
        LET r == FrameBufferDrawInstances(frame_buffers[1], instance_count, geometry,
                                          Rect(0, 0, 2, 2), DrawParameters(depth_test),
                                          resources, element_range)
        IN /\ frame_buffers' = [frame_buffers EXCEPT ![1] = r.frame_buffer]
           /\ FrameBufferDid([op |-> "draw_instances", self |-> 1,
                              instance_count |-> instance_count,
                              geometry |-> geometry, element_range |-> element_range,
                              resources |-> resources, depth_test |-> depth_test,
                              result |-> r.result])

NextDraw == Draw \/ DrawInstances

SpecDraw == InitFrameBuffer /\ [][NextDraw]_vars

\* C11: draw and draw_instances return an error when the element range
\* exceeds the geometry buffer, when a binding references a destroyed texture
\* or buffer, or when a depth test is requested of a frame buffer without a
\* depth attachment, and then draw nothing; otherwise they return the
\* statistics of the one submission.
C11_DrawErrors ==
    fb_last.op \in {"draw", "draw_instances"} =>
        LET was == fb_before[fb_last.self]
            range == fb_last.element_range
            invalid ==
                \/ (range.tag = "Specific"
                        /\ range.offset + range.count > fb_last.geometry.triangles)
                \/ \E b \in 1..2 : ~fb_last.resources[1].bindings[b].alive
                \/ (fb_last.depth_test /\ DepthAttachment(was) = None)
        IN IF invalid
           THEN fb_last.result.tag = "Err" /\ frame_buffers = fb_before
           ELSE /\ fb_last.result.tag = "Ok"
                /\ fb_last.result.value.triangles =
                      fb_last.instance_count *
                          (IF range.tag = "Full" THEN fb_last.geometry.triangles
                           ELSE range.count)

\* A draw was refused for its pipeline state alone, on a frame buffer that
\* had been drawn to.
C11_Witness ==
    /\ fb_last.op = "draw"
    /\ fb_last.result = Err("pipeline state")
    /\ fb_last.depth_test /\ ~HasDepth(fb_before[1])
    /\ fb_last.element_range.tag = "Specific"
    /\ fb_last.geometry.triangles > 0
    /\ \A b \in 1..2 : fb_last.resources[1].bindings[b].alive
    /\ frame_buffers = fb_before

(***************************************************************************)
(* SpecLock: threads edit, regenerate and read one shared SurfaceData      *)
(***************************************************************************)

\* The built terrain and its raw_copy share the Arc of the chunk's data; each
\* is owned by a thread of its own.
InitLock ==
    /\ LockRestIdle
    /\ rw_lock = RwLockNew
    /\ shared = Shaded(LockedTerrain.surfaces[1], TRUE)
    /\ writers = [t \in WriterThreads |->
                    [pc |-> "idle",
                     terrain |-> IF t = 1 THEN LockedTerrain.terrain
                                 ELSE RawCopy(LockedTerrain.terrain)]]
    /\ observers = [o \in ObserverThreads |-> [pc |-> "idle", seen |-> NONE]]
    /\ edits = 0

\* A thread edits the heights of its terrain with a brush.
Edit(t) ==
    /\ writers[t].pc = "idle"
    /\ edits < MaxEdits
    /\ \E brush \in Brushes(writers[t].terrain) :
        writers' = [writers EXCEPT ![t].terrain = ApplyBrush(@, brush)]
    /\ edits' = edits + 1
    /\ UNCHANGED <<rw_lock, shared, observers, lockRest>>

\* A step of chunk.update() in thread t. An update of a chunk that is not
\* dirty returns at once and is no step.
UpdateStepOf(t, step) ==
    /\ writers[t].terrain.chunks[1].dirty
    /\ UpdateStep(writers[t].pc) = step
    /\ step = "write" => RwLockCanWrite(rw_lock)
    /\ rw_lock' = LockAfter(rw_lock, t, step)
    /\ shared' = Regenerating(step, writers[t].terrain.chunks[1], shared)
    /\ writers' = [writers EXCEPT
                      ![t].pc = IF step = "end" THEN "idle" ELSE step,
                      ![t].terrain.chunks[1] = ChunkAfter(@, step)]
    /\ UNCHANGED <<observers, edits, lockRest>>

\* let mut surface_data = self.surface_data.write().unwrap();
AcquireWrite == \E t \in WriterThreads : UpdateStepOf(t, "write")

\* surface_data.clear();
ClearData == \E t \in WriterThreads : UpdateStepOf(t, "clear")

FormVertexBuffer == \E t \in WriterThreads : UpdateStepOf(t, "vertex buffer")

FormIndexBuffer == \E t \in WriterThreads : UpdateStepOf(t, "index buffer")

\* surface_data.calculate_normals().unwrap(); calculate_tangents().unwrap();
CalculateNormals == \E t \in WriterThreads : UpdateStepOf(t, "normals and tangents")

\* self.dirty.set(false); and the end of the block.
EndUpdate == \E t \in WriterThreads : UpdateStepOf(t, "end")

EditHeights == \E t \in WriterThreads : Edit(t)

\* chunk.data().read().unwrap()
AcquireRead ==
    \E o \in ObserverThreads :
        /\ observers[o].pc = "idle"
        /\ RwLockCanRead(rw_lock)
        /\ rw_lock' = [rw_lock EXCEPT !.readers = @ \cup {o}]
        /\ observers' = [observers EXCEPT ![o].pc = "reading"]
        /\ UNCHANGED <<shared, writers, edits, lockRest>>

\* The reader looks at the buffers through its guard.
Observe ==
    \E o \in ObserverThreads :
        /\ observers[o].pc = "reading"
        /\ observers' = [observers EXCEPT ![o] = [pc |-> "seen", seen |-> shared]]
        /\ UNCHANGED <<rw_lock, shared, writers, edits, lockRest>>

\* The reader drops its guard, and with it what it saw.
ReleaseRead ==
    \E o \in ObserverThreads :
        /\ observers[o].pc = "seen"
        /\ rw_lock' = [rw_lock EXCEPT !.readers = @ \ {o}]
        /\ observers' = [observers EXCEPT ![o] = [pc |-> "idle", seen |-> NONE]]
        /\ UNCHANGED <<shared, writers, edits, lockRest>>

NextLock ==
    \/ EditHeights
    \/ AcquireWrite
    \/ ClearData
    \/ FormVertexBuffer
    \/ FormIndexBuffer
    \/ CalculateNormals
    \/ EndUpdate
    \/ AcquireRead
    \/ Observe
    \/ ReleaseRead

SpecLock == InitLock /\ [][NextLock]_vars

\* The threads in the middle of Chunk::update.
Regenerators == {t \in WriterThreads : writers[t].pc # "idle"}

\* C12: Chunk::update holds exclusive write access from before the clear until
\* the normals and tangents are calculated: while a thread regenerates, it is
\* the lock's writer, no reader holds access and no other thread regenerates;
\* and what a reader sees through Chunk::data() with shared access is never
\* cleared or partly rebuilt.
C12_ExclusiveRegeneration ==
    /\ \A t \in Regenerators : rw_lock.writer = t /\ rw_lock.readers = {}
    /\ Cardinality(Regenerators) <= 1
    /\ \A o \in ObserverThreads :
        /\ observers[o].pc # "idle" =>
              Whole(shared, writers[1].terrain.chunks[1]) /\ Regenerators = {}
        /\ observers[o].seen # NONE => Whole(observers[o].seen, writers[1].terrain.chunks[1])

\* A reader saw data that a regeneration after an edit had rebuilt, while the
\* other thread waits with a dirty chunk and a second reader holds access.
C12_Witness ==
    /\ observers[3].pc = "seen"
    /\ observers[3].seen # Shaded(LockedTerrain.surfaces[1], TRUE)
    /\ observers[4].pc = "reading"
    /\ rw_lock.readers = ObserverThreads
    /\ \E t \in WriterThreads : writers[t].terrain.chunks[1].dirty

(***************************************************************************)
(* SpecOptimizer: a visibility buffer is optimized and read back           *)
(***************************************************************************)

InitOptimizer ==
    /\ OptimizerRestIdle
    /\ \E w_tiles \in TileCounts, h_tiles \in TileCounts :
        optimizer = VisibilityBufferOptimizerNew(w_tiles, h_tiles)
    /\ opt_last = [op |-> "new"]
    /\ opt_steps = 0

OptimizerDid(call) ==
    /\ opt_steps < MaxOptimizerSteps
    /\ opt_last' = call
    /\ opt_steps' = opt_steps + 1
    /\ UNCHANGED optimizerRest

\* optimizer.optimize(..)
CallOptimize ==
    \E visibility_buffer \in BOOLEAN, written \in Writes, refused \in BOOLEAN :
        LET r == Optimize(optimizer, visibility_buffer, UnitQuad, written, refused)
        IN /\ optimizer' = r.optimizer
           /\ OptimizerDid([op |-> "optimize", before |-> optimizer,
                            visibility_buffer |-> visibility_buffer,
                            written |-> written, refused |-> refused,
                            result |-> r.result, log |-> r.log])

\* The GPU finishes the transfer under way.
TransferCompletes ==
    /\ IsRequestRunning(optimizer.pixel_buffer)
    /\ ~optimizer.pixel_buffer.request[1].done
    /\ optimizer' = [optimizer EXCEPT !.pixel_buffer = TransferDone(@)]
    /\ OptimizerDid([op |-> "transfer", before |-> optimizer])

\* optimizer.read_visibility_mask(server)
CallReadVisibilityMask ==
    LET r == ReadVisibilityMask(optimizer)
    IN /\ optimizer' = r.optimizer
       /\ OptimizerDid([op |-> "read_visibility_mask", before |-> optimizer,
                        result |-> r.result])

\* optimizer.is_reading_from_gpu()
CallIsReadingFromGpu ==
    /\ UNCHANGED optimizer
    /\ OptimizerDid([op |-> "is_reading_from_gpu", before |-> optimizer,
                     result |-> IsReadingFromGpu(optimizer)])

NextOptimizer ==
    \/ CallOptimize
    \/ TransferCompletes
    \/ CallReadVisibilityMask
    \/ CallIsReadingFromGpu

SpecOptimizer == InitOptimizer /\ [][NextOptimizer]_vars

\* Whether a transfer is under way and not done.
Pending(self) == self.pixel_buffer.request # None /\ ~self.pixel_buffer.request[1].done

\* The calls of a log, by name.
Calls(log) == [i \in 1..Len(log) |-> log[i].call]

\* C17: optimize clears the color of the w_tiles x h_tiles viewport to
\* transparent (and no depth or stencil), then draws once, then schedules the
\* pixel transfer; when the uniform buffer write or the draw fails, optimize
\* returns that error and schedules nothing, so that a transfer comes to be
\* under way only in a call whose draw succeeded; and while a transfer is
\* pending, read_visibility_mask returns nothing rather than an error.
C17_OptimizeOrder ==
    /\ opt_last.op = "optimize" =>
          LET log == opt_last.log
              before == opt_last.before
              viewport == Rect(0, 0, before.w_tiles, before.h_tiles)
              draw_fails == ~opt_last.visibility_buffer
          IN /\ Calls(log) = SubSeq(<<"clear", "write", "draw", "schedule_pixels_transfer">>,
                                    1, Len(log))
             /\ Len(log) >= 2
             /\ log[1].args = <<viewport, Some(Transparent), None, None>>
             /\ Len(log) >= 3 => log[3].args[1] = viewport
             /\ opt_last.written.tag = "Err" =>
                   /\ opt_last.result = opt_last.written
                   /\ Len(log) = 2
                   /\ optimizer.pixel_buffer = before.pixel_buffer
             /\ (opt_last.written.tag = "Ok" /\ draw_fails) =>
                   /\ opt_last.result.tag = "Err"
                   /\ opt_last.result = log[3].args[4]
                   /\ Len(log) = 3
                   /\ optimizer.pixel_buffer = before.pixel_buffer
             /\ opt_last.result.tag = "Ok" => Len(log) = 4
             /\ (IsRequestRunning(optimizer.pixel_buffer)
                    /\ ~IsRequestRunning(before.pixel_buffer)) =>
                   /\ Len(log) = 4
                   /\ log[3].args[4].tag = "Ok"
                   /\ opt_last.result.tag = "Ok"
    /\ (opt_last.op = "read_visibility_mask" /\ Pending(opt_last.before)) =>
          /\ opt_last.result = None
          /\ optimizer = opt_last.before
    /\ IsRequestRunning(optimizer.pixel_buffer) => opt_last.op # "new"

\* An optimize whose draw failed left the transfer that an earlier optimize
\* had scheduled as it was.
C17_Witness ==
    /\ opt_last.op = "optimize"
    /\ opt_last.written.tag = "Ok"
    /\ opt_last.result.tag = "Err"
    /\ Len(opt_last.log) = 3
    /\ Pending(opt_last.before)
    /\ Pending(optimizer)

====
